---- MODULE Spec2Model ----
(***************************************************************************)
(* State-composition core of the engine: the middleware pipeline around a  *)
(* game store (createGameStoreWithMiddleware.ts) and the scoped store      *)
(* derived from a parent store (createScopedStore.ts); the typed event bus *)
(* (EventBus.ts), the modal queue and the calendar service (ModalQueue.ts) *)
(* and the scene store (sceneStore.ts), whose navigation calls are split   *)
(* at their awaits so that overlapping calls interleave.                   *)
(*                                                                         *)
(* Objects are modelled by reference: a heap is a sequence of cells, a     *)
(* reference is an index into it, and a callback that mutates an argument  *)
(* writes the cell it was handed.  deepClone allocates a new cell, so what *)
(* it protects is visible to the checks.  Values are JSON data: integers,  *)
(* records (functions over key names) and, for nested objects, ordered     *)
(* key/value lists, since JSON.stringify keeps the insertion order.        *)
(***************************************************************************)
EXTENDS Integers, Sequences, FiniteSets, TLC

VARIABLES
    middleware,         \* the pipeline handed to createGameStoreWithMiddleware
    baseStore,          \* the wrapped store: [state, initial]
    call,               \* the last call: [op, prev, arg, threw]
    log,                \* hook invocations and store writes of the last call, in order
    initialScopedState, \* scoped store: the projection at construction
    lastScopedState,    \* scoped store: the projection last seen by the parent listener
    subscribers,        \* scoped store: whole-state callbacks, in insertion order
    keySubscribers,     \* scoped store: key -> callbacks, in insertion order
                        \* (a key without an entry has no callbacks)
    notified,           \* scoped callbacks invoked by the last call, in order
    sibling,            \* a second scoped store over the same parent:
                        \* [constructed, lastScopedState, subscribers,
                        \*  keySubscribers, notified]
    listeners,          \* event bus: instance -> event -> callbacks, in insertion order
                        \* (an event without an entry has no callbacks)
    invoked,            \* event bus: the callbacks the last call invoked, in order
    busCall,            \* event bus: the last call: [op, bus, event, arg, snapshot, threw]
    modal,              \* modal queue: [queue, subscribers], and of the last call
                        \* [log, call]: the callbacks it invoked in order, and
                        \* [op, arg, prev, subs, threw]
    calendar,           \* calendar service: [config, made], and of the last query
                        \* [asked, day, seasonIndex, dayInSeason, year]
    scene               \* scene store: [state, sceneStack, currentSceneData,
                        \* subscribers], the state last handed to the
                        \* subscriber [seen], the navigation calls suspended in
                        \* a hook [pending], and the last step [last]

mwVars == <<middleware, baseStore, call, log>>

scopedVars == <<initialScopedState, lastScopedState, subscribers, keySubscribers, notified>>

\* What the stores do not touch, and what one scoped store does not touch.
apartVars == <<listeners, invoked, busCall, modal, calendar, scene>>

otherVars == <<sibling, listeners, invoked, busCall, modal, calendar, scene>>

storeVars == <<middleware, baseStore, call, log,
               initialScopedState, lastScopedState, subscribers, keySubscribers,
               notified, sibling>>

vars == <<middleware, baseStore, call, log,
          initialScopedState, lastScopedState, subscribers, keySubscribers, notified,
          sibling, listeners, invoked, busCall, modal, calendar, scene>>

----------------------------------------------------------------------------
(* Bounds *)

MaxMw == 2        \* longest pipeline
MaxCount == 7     \* update() is offered while count is below this
MaxSubs == 2      \* whole-state subscribers of the scoped store at one time
MaxKeySubs == 1   \* per-key subscriptions of the scoped store at one time
MaxSubsLeft == 3  \* whole-state subscribers at one time, where some unsubscribe
MaxListeners == 3 \* callbacks on() is offered to register for one event of one bus
MaxOnce == 1      \* once() registrations of one bus at one time
MaxDepth == 1     \* emits a listener issues from inside an emit, nested
MaxQueue == 2     \* push() is offered while the modal queue is shorter than this
MaxModalSubs == 2 \* subscribe() is offered while the modal queue has fewer subscribers
MaxSeasons == 3   \* seasons of a calendar configuration, from none
MaxDaysPerSeason == 3 \* daysPerSeason of a calendar configuration, from -1
MaxDay == 20      \* the latest day a calendar is asked about
MaxBack == 2      \* days before day 0 a calendar is asked about
MaxPending == 2   \* navigation calls of the scene store suspended in a hook at one time
MaxStack == 2     \* push() is offered while the scene stack is shorter than this

----------------------------------------------------------------------------
(* Values *)

Keys == {"count", "name"}

NoObj == [k \in {} |-> 0]

\* No second scoped store was constructed.
NoSibling ==
    [constructed |-> FALSE, lastScopedState |-> NoObj, subscribers |-> <<>>,
     keySubscribers |-> NoObj, notified |-> <<>>]

InitialStates == { [count |-> 0, name |-> 0] }

\* Arguments the callers pass.
PatchInputs == { [count |-> 5], [name |-> 1], [count |-> 1, name |-> 2] }
SetInputs == { [count |-> 5, name |-> 1], [count |-> 2, name |-> 0] }
Updaters == { "inc", "rename" }

\* The value an in-place mutation by a hook writes.
Scribble == 99

\* Hook behaviours.  "none" is an absent hook.
BeforeKinds == {"none", "void", "addOne", "double", "pickCount", "throw",
                "scribble", "scribbleThrow"}
AfterKinds == {"none", "observe", "mutate", "throw"}

\* The middleware entries pipelines are built from.
Middlewares ==
    { [before |-> "addOne", after |-> "observe"],
      [before |-> "double", after |-> "observe"],
      [before |-> "void", after |-> "none"],
      [before |-> "none", after |-> "observe"],
      [before |-> "throw", after |-> "observe"],
      [before |-> "none", after |-> "throw"],
      [before |-> "pickCount", after |-> "none"],
      [before |-> "scribble", after |-> "mutate"],
      [before |-> "scribbleThrow", after |-> "observe"] }

Pipelines == UNION { [1..n -> Middlewares] : n \in 0..MaxMw }

\* Event bus: two instances, two events, the data emitted.
Buses == {1, 2}
BusEvents == {"scoreChanged", "playerDied"}
BusData == {1, 2}

\* No event bus was created.
NoBus ==
    /\ listeners = [bus \in Buses |-> [event \in BusEvents |-> <<>>]]
    /\ invoked = <<>>
    /\ busCall = [op |-> "init", bus |-> 0, event |-> "", arg |-> 0,
                  snapshot |-> <<>>, threw |-> FALSE]

\* createModalQueue(): an empty queue without subscribers.
NoModal ==
    modal = [queue |-> <<>>, subscribers |-> <<>>, log |-> <<>>,
             call |-> [op |-> "init", arg |-> "", prev |-> <<>>, subs |-> <<>>,
                       threw |-> FALSE]]

\* No calendar constructed yet.
NoCalendar ==
    calendar = [config |-> [daysPerSeason |-> 0, seasons |-> <<>>], made |-> "no",
                asked |-> FALSE, day |-> 0, seasonIndex |-> 0, dayInSeason |-> 0, year |-> 0]

\* null and undefined where an object may stand, and null where a scene id may.
JsNull == [null |-> TRUE]
Undefined == [undefined |-> TRUE]
NoSceneId == "null"

\* The scene definitions handed to createSceneStore: id -> the hooks it has.
Scenes ==
    [id \in {"menu", "game"} |->
        [onExit |-> id = "menu", onEnter |-> id = "game"]]

\* createSceneStore(scenes, "menu"): on the initial scene, nothing navigated.
NoScene ==
    scene = [state |-> [currentScene |-> "menu", previousScene |-> NoSceneId,
                        isTransitioning |-> FALSE, transition |-> JsNull],
             sceneStack |-> <<>>, currentSceneData |-> JsNull,
             subscribers |-> {}, seen |-> JsNull, pending |-> <<>>,
             last |-> [step |-> "init", op |-> "", id |-> "", options |-> Undefined,
                       out |-> "returned"]]

----------------------------------------------------------------------------
(* Heap *)

\* A new cell holding v; the reference to it is Len of the result.
Alloc(heap, v) == Append(heap, v)

\* In-place assignment obj[k] = v through a reference.
Mutate(heap, ref, k, v) ==
    [heap EXCEPT ![ref] =
        [x \in DOMAIN @ \cup {k} |-> IF x = k THEN v ELSE @[x]]]

\* JSON.parse(JSON.stringify(obj)): a structurally equal value in a new object.
DeepCloneAlias(heap, ref) == [heap |-> heap, ref |-> ref]

DeepClone(heap, ref) ==
    [heap |-> Alloc(heap, heap[ref]), ref |-> Len(heap) + 1]

\* { ...a, ...b }
Spread(a, b) ==
    [k \in DOMAIN a \cup DOMAIN b |-> IF k \in DOMAIN b THEN b[k] ELSE a[k]]

----------------------------------------------------------------------------
(* Store Core: createGameStore, whose source is not part of the tree.      *)

CoreGet(store) == store.state

CoreSet(store, newState) == [store EXCEPT !.state = newState]

CorePatch(store, partial) == [store EXCEPT !.state = Spread(@, partial)]

CoreReset(store) == [store EXCEPT !.state = store.initial]

----------------------------------------------------------------------------
(* Middleware hooks: what the callbacks handed to the pipeline do.         *)

\* mw.beforePatch(state, patch): the hook holds references to its two
\* arguments; it returns a patch ("value"), nothing ("void") or throws.
CallBeforePatch(kind, heap, stateRef, patchRef) ==
    LET patch == heap[patchRef]
        void == [heap |-> heap, out |-> "void", ref |-> 0]
        scribbled == Mutate(Mutate(heap, stateRef, "count", Scribble),
                            patchRef, "count", Scribble)
    IN CASE kind = "addOne" ->
              IF "count" \in DOMAIN patch
              THEN [heap |-> Alloc(heap, Spread(patch, [count |-> patch.count + 1])),
                    out |-> "value", ref |-> Len(heap) + 1]
              ELSE void
         [] kind = "double" ->
              IF "count" \in DOMAIN patch
              THEN [heap |-> Alloc(heap, Spread(patch, [count |-> patch.count * 2])),
                    out |-> "value", ref |-> Len(heap) + 1]
              ELSE void
         [] kind = "pickCount" ->
              IF "count" \in DOMAIN patch
              THEN [heap |-> Alloc(heap, [count |-> patch.count]),
                    out |-> "value", ref |-> Len(heap) + 1]
              ELSE void
         [] kind = "scribble" -> [heap |-> scribbled, out |-> "void", ref |-> 0]
         [] kind = "scribbleThrow" -> [heap |-> scribbled, out |-> "throw", ref |-> 0]
         [] kind = "throw" -> [heap |-> heap, out |-> "throw", ref |-> 0]
         [] OTHER -> void

\* mw.afterPatch(prevState, newState, patch): returns nothing or throws.
CallAfterPatch(kind, heap, prevRef, newRef, patchRef) ==
    CASE kind = "mutate" ->
           [heap |-> Mutate(Mutate(Mutate(heap, prevRef, "count", Scribble),
                                   newRef, "count", Scribble),
                            patchRef, "count", Scribble),
            out |-> "ok"]
      [] kind = "throw" -> [heap |-> heap, out |-> "throw"]
      [] OTHER -> [heap |-> heap, out |-> "ok"]

\* updater(state) of update(): returns the next state, or throws.  The
\* scribbling updaters assign to their argument and do not return it.
CallUpdater(kind, heap, stateRef) ==
    CASE kind = "inc" ->
           [heap |-> Alloc(heap, Spread(heap[stateRef],
                                        [count |-> heap[stateRef].count + 1])),
            ref |-> Len(heap) + 1, out |-> "value"]
      [] kind = "rename" ->
           [heap |-> Mutate(heap, stateRef, "name", 1), ref |-> stateRef,
            out |-> "value"]
      [] kind = "scribbleReturn" ->
           [heap |-> Alloc(Mutate(heap, stateRef, "count", Scribble),
                           Spread(heap[stateRef],
                                  [count |-> heap[stateRef].count + 1])),
            ref |-> Len(heap) + 1, out |-> "value"]
      [] kind = "scribbleThrow" ->
           [heap |-> Mutate(heap, stateRef, "count", Scribble), ref |-> 0,
            out |-> "throw"]

----------------------------------------------------------------------------
(* createGameStoreWithMiddleware *)

Event(kind, idx, prev, next, patch, out, res) ==
    [kind |-> kind, idx |-> idx, prev |-> prev, next |-> next,
     patch |-> patch, out |-> out, res |-> res]

\* try { ... } catch (error) { console.error(...) } around a hook call.
TryCatchMissing(r) == r

TryCatch(r) == IF r.out = "throw" THEN [r EXCEPT !.out = "caught"] ELSE r

\* if (result !== undefined) currentPatch = result
NextPatchKept(currentPatch, r) == currentPatch

NextPatch(currentPatch, r) == IF r.out = "value" THEN r.ref ELSE currentPatch

RECURSIVE BeforeLoop(_, _, _, _, _, _)
BeforeLoop(mws, i, heap, stateRef, currentPatch, evs) ==
    IF i > Len(mws)
    THEN [heap |-> heap, ref |-> currentPatch, log |-> evs, threw |-> FALSE]
    ELSE IF mws[i].before = "none"
    THEN BeforeLoop(mws, i + 1, heap, stateRef, currentPatch, evs)
    ELSE LET s == DeepClone(heap, stateRef)
             p == DeepClone(s.heap, currentPatch)
             r == CallBeforePatch(mws[i].before, p.heap, s.ref, p.ref)
             t == TryCatch(r)
             ev == Event("before", i, p.heap[s.ref], NoObj, p.heap[p.ref], r.out,
                         IF r.out = "value" THEN r.heap[r.ref] ELSE NoObj)
         IN IF t.out = "throw"
            THEN [heap |-> t.heap, ref |-> currentPatch,
                  log |-> Append(evs, ev), threw |-> TRUE]
            ELSE BeforeLoop(mws, i + 1, t.heap, stateRef,
                            NextPatch(currentPatch, t), Append(evs, ev))

runBeforePatch(mws, heap, stateRef, patchRef) ==
    BeforeLoop(mws, 1, heap, stateRef, patchRef, <<>>)

RECURSIVE AfterLoop(_, _, _, _, _, _, _)
AfterLoop(mws, i, heap, prevRef, newRef, patchRef, evs) ==
    IF i > Len(mws)
    THEN [heap |-> heap, log |-> evs, threw |-> FALSE]
    ELSE IF mws[i].after = "none"
    THEN AfterLoop(mws, i + 1, heap, prevRef, newRef, patchRef, evs)
    ELSE LET a == DeepClone(heap, prevRef)
             b == DeepClone(a.heap, newRef)
             c == DeepClone(b.heap, patchRef)
             r == CallAfterPatch(mws[i].after, c.heap, a.ref, b.ref, c.ref)
             t == TryCatch(r)
             ev == Event("after", i, c.heap[a.ref], c.heap[b.ref], c.heap[c.ref],
                         r.out, NoObj)
         IN IF t.out = "throw"
            THEN [heap |-> t.heap, log |-> Append(evs, ev), threw |-> TRUE]
            ELSE AfterLoop(mws, i + 1, t.heap, prevRef, newRef, patchRef,
                           Append(evs, ev))

runAfterPatch(mws, heap, prevRef, newRef, patchRef) ==
    AfterLoop(mws, 1, heap, prevRef, newRef, patchRef, <<>>)

\* The outcome of a call that an exception left before the store was written.
Escaped(store, evs) == [store |-> store, log |-> evs, threw |-> TRUE]

\* The tail shared by set, update and patch: the store has been written with
\* the final patch; read it back and run the afterPatch hooks.
FinishHooksFirst(mws, store, store1, op, b, prevRef) ==
    LET w == Event("write", 0, store.state, store1.state, b.heap[b.ref], op, NoObj)
        h == Alloc(b.heap, CoreGet(store1))
        a == runAfterPatch(mws, h, prevRef, Len(h), b.ref)
    IN [store |-> store1, log |-> b.log \o a.log \o <<w>>, threw |-> a.threw]

FinishStaleState(mws, store, store1, op, b, prevRef) ==
    LET w == Event("write", 0, store.state, store1.state, b.heap[b.ref], op, NoObj)
        a == runAfterPatch(mws, b.heap, prevRef, prevRef, b.ref)
    IN [store |-> store1, log |-> b.log \o <<w>> \o a.log, threw |-> a.threw]

Finish(mws, store, store1, op, b, prevRef) ==
    LET w == Event("write", 0, store.state, store1.state, b.heap[b.ref], op, NoObj)
        h == Alloc(b.heap, CoreGet(store1))
        a == runAfterPatch(mws, h, prevRef, Len(h), b.ref)
    IN [store |-> store1, log |-> b.log \o <<w>> \o a.log, threw |-> a.threw]

\* set(newState)
set(mws, store, newState) ==
    LET h0 == <<CoreGet(store), newState>>
        b == runBeforePatch(mws, h0, 1, 2)
    IN IF b.threw THEN Escaped(store, b.log)
       ELSE Finish(mws, store, CoreSet(store, b.heap[b.ref]), "set", b, 1)

\* update(updater)
update(mws, store, updater) ==
    LET h0 == <<CoreGet(store)>>
        c == DeepClone(h0, 1)
        u == CallUpdater(updater, c.heap, c.ref)
        b == runBeforePatch(mws, u.heap, 1, u.ref)
    IN IF b.threw THEN Escaped(store, b.log)
       ELSE Finish(mws, store, CoreSet(store, b.heap[b.ref]), "set", b, 1)

\* patch(partial)
patch(mws, store, partial) ==
    LET h0 == <<CoreGet(store), partial>>
        b == runBeforePatch(mws, h0, 1, 2)
    IN IF b.threw THEN Escaped(store, b.log)
       ELSE Finish(mws, store, CorePatch(store, b.heap[b.ref]), "patch", b, 1)

\* reset()
ResetThroughPipeline(mws, store) == patch(mws, store, store.initial)

reset(mws, store) ==
    LET store1 == CoreReset(store)
        h == <<CoreGet(store), CoreGet(store1)>>
        w == Event("write", 0, store.state, store1.state, store1.state, "reset", NoObj)
        a == runAfterPatch(mws, h, 1, 2, 2)
    IN [store |-> store1, log |-> <<w>> \o a.log, threw |-> a.threw]

----------------------------------------------------------------------------
(* The wrapped store as a state machine *)

\* What the updater of update() computes from the stored state.
Updated(updater, state) ==
    IF updater = "inc" THEN Spread(state, [count |-> state.count + 1])
    ELSE Spread(state, [name |-> 1])

InitMw ==
    /\ middleware \in Pipelines
    /\ \E s \in InitialStates : 
         /\ baseStore = [state |-> s, initial |-> s]
         /\ call = [op |-> "init", prev |-> s, arg |-> NoObj, threw |-> FALSE]
    /\ log = <<>>
    /\ initialScopedState = NoObj
    /\ lastScopedState = NoObj
    /\ subscribers = <<>>
    /\ keySubscribers = NoObj
    /\ notified = <<>>
    /\ sibling = NoSibling
    /\ NoBus
    /\ NoModal
    /\ NoCalendar
    /\ NoScene

Returned(op, arg, r) ==
    /\ baseStore' = r.store
    /\ log' = r.log
    /\ call' = [op |-> op, prev |-> baseStore.state, arg |-> arg, threw |-> r.threw]
    /\ UNCHANGED middleware
    /\ UNCHANGED scopedVars
    /\ UNCHANGED otherVars

Set ==
    \E s \in SetInputs : Returned("set", s, set(middleware, baseStore, s))

Update ==
    \E u \in Updaters :
        /\ baseStore.state.count < MaxCount
        /\ Returned("update", Updated(u, baseStore.state),
                    update(middleware, baseStore, u))

Patch ==
    \E p \in PatchInputs : Returned("patch", p, patch(middleware, baseStore, p))

Reset == Returned("reset", NoObj, reset(middleware, baseStore))

NextMw == Set \/ Update \/ Patch \/ Reset

SpecMw == InitMw /\ [][NextMw]_vars

----------------------------------------------------------------------------
(* createScopedStore: values *)

\* The parent state is {player, count}; the scope is player = {health, pos},
\* where pos is a nested object, an ordered list of <<key, value>>.
XY == << <<"x", 0>>, <<"y", 0>> >>
YX == << <<"y", 0>>, <<"x", 0>> >>
X1 == << <<"x", 1>>, <<"y", 0>> >>

ScopedKeys == {"health", "pos"}
ObjKeys == {"pos"}                 \* the keys that hold a nested object
KeyOrder == <<"health", "pos", "volume">>  \* Object.keys order of a scoped state

Players == [health : {0, 1}, pos : {XY, YX, X1}]

ParentInitial == [count |-> 0, player |-> [health |-> 0, pos |-> XY]]

\* The parent states a scoped store is constructed over.
ConstructedOver ==
    { ParentInitial, [count |-> 1, player |-> [health |-> 1, pos |-> XY]] }

ParentPatchInputs ==
    { [count |-> 1],
      [player |-> [health |-> 0, pos |-> XY]],
      [player |-> [health |-> 0, pos |-> YX]],
      [player |-> [health |-> 1, pos |-> XY]] }
ParentSetInputs ==
    { [count |-> 0, player |-> [health |-> 1, pos |-> YX]],
      [count |-> 1, player |-> [health |-> 0, pos |-> XY]] }
ScopedSetInputs ==
    { [health |-> 0, pos |-> XY], [health |-> 1, pos |-> YX], [health |-> 0, pos |-> X1] }
ScopedPatchInputs == { [health |-> 1], [pos |-> X1], [health |-> 0, pos |-> YX] }
ScopedUpdaters == { "heal", "move" }

\* Callbacks subscribed to the scoped store.
Callbacks == {"obs", "thrower"}
KeyCallbacks == {"kobs", "kthrow"}

Range(seq) == {seq[i] : i \in DOMAIN seq}

Without(seq, x) == SelectSeq(seq, LAMBDA y : y # x)

----------------------------------------------------------------------------
(* createScopedStore *)

\* options.select and options.update: the lens onto player.
LensSelect(state) == state.player

LensUpdate(state, scoped) == Spread(state, [player |-> scoped])

\* JSON.stringify, as a list of tokens.
Digits == <<"0", "1", "2", "3", "4", "5", "6", "7", "8", "9">>

RECURSIVE Decimal(_)
Decimal(n) ==
    IF n < 10 THEN <<Digits[n + 1]>>
    ELSE Decimal(n \div 10) \o <<Digits[(n % 10) + 1]>>

RECURSIVE Members(_)
Members(kv) ==
    IF kv = <<>> THEN <<>>
    ELSE <<kv[1][1], ":">> \o Decimal(kv[1][2])
         \o (IF Len(kv) > 1 THEN <<",">> ELSE <<>>) \o Members(Tail(kv))

\* JSON.stringify(obj[key]); a missing key reads as undefined.
StringifyKey(obj, key) ==
    IF key \notin DOMAIN obj THEN <<"undefined">>
    ELSE IF key \in ObjKeys THEN <<"{">> \o Members(obj[key]) \o <<"}">>
    ELSE Decimal(obj[key])

getChangedKeys(oldState, newState) ==
    { key \in DOMAIN oldState \cup DOMAIN newState :
        StringifyKey(oldState, key) # StringifyKey(newState, key) }

\* A subscriber called with a reference to the state it is handed.
CallSubscriber(cb, heap, ref) ==
    CASE cb = "mutator" -> [heap |-> Mutate(heap, ref, "health", Scribble), out |-> "ok"]
      [] cb = "thrower" -> [heap |-> heap, out |-> "throw"]
      [] OTHER -> [heap |-> heap, out |-> "ok"]

CallKeySubscriber(cb, heap) ==
    IF cb = "kthrow" THEN [heap |-> heap, out |-> "throw"]
    ELSE [heap |-> heap, out |-> "ok"]

Note(cb, kind, key, value) == [cb |-> cb, kind |-> kind, key |-> key, value |-> value]

\* subscribers.forEach((cb) => cb(snapshot)): nothing catches a throw.
RECURSIVE NotifyLoop(_, _, _, _, _)
NotifyLoop(subs, i, heap, snapshot, notes) ==
    IF i > Len(subs) THEN [heap |-> heap, notes |-> notes, threw |-> FALSE]
    ELSE LET r == CallSubscriber(subs[i], heap, snapshot)
             n == Append(notes, Note(subs[i], "state", "", heap[snapshot]))
         IN IF r.out = "throw" THEN [heap |-> r.heap, notes |-> n, threw |-> TRUE]
            ELSE NotifyLoop(subs, i + 1, r.heap, snapshot, n)

notify(subs, heap, stateRef) ==
    LET snapshot == DeepClone(heap, stateRef)
    IN NotifyLoop(subs, 1, snapshot.heap, snapshot.ref, <<>>)

\* The <<key, callback>> calls of notifyKeySubscribers, in order.
RECURSIVE KeyCalls(_, _, _)
KeyCalls(keySubs, changedKeys, i) ==
    IF i > Len(KeyOrder) THEN <<>>
    ELSE LET key == KeyOrder[i]
             subs == IF key \in changedKeys THEN keySubs[key] ELSE <<>>
         IN [j \in 1..Len(subs) |-> <<key, subs[j]>>]
            \o KeyCalls(keySubs, changedKeys, i + 1)

RECURSIVE KeyLoop(_, _, _, _, _)
KeyLoop(calls, i, heap, stateRef, notes) ==
    IF i > Len(calls) THEN [heap |-> heap, notes |-> notes, threw |-> FALSE]
    ELSE LET key == calls[i][1]
             r == CallKeySubscriber(calls[i][2], heap)
             n == Append(notes, Note(calls[i][2], "key", key, heap[stateRef][key]))
         IN IF r.out = "throw" THEN [heap |-> r.heap, notes |-> n, threw |-> TRUE]
            ELSE KeyLoop(calls, i + 1, r.heap, stateRef, n)

notifyKeySubscribers(keySubs, changedKeys, heap, stateRef) ==
    KeyLoop(KeyCalls(keySubs, changedKeys, 1), 1, heap, stateRef, <<>>)

\* The callback a scoped store subscribes to its parent, from the projection
\* select(parentState) on.
scopedListenerStale(last, subs, keySubs, currentScoped) ==
    LET heap == <<currentScoped>>
        changedKeys == getChangedKeys(last, heap[1])
        n == notify(subs, heap, 1)
        k == notifyKeySubscribers(keySubs, changedKeys, n.heap, 1)
    IN IF changedKeys = {} THEN [last |-> last, notes |-> <<>>, threw |-> FALSE]
       ELSE IF n.threw THEN [last |-> last, notes |-> n.notes, threw |-> TRUE]
       ELSE [last |-> last, notes |-> n.notes \o k.notes, threw |-> k.threw]

scopedListener(last, subs, keySubs, currentScoped) ==
    LET heap == <<currentScoped>>
        changedKeys == getChangedKeys(last, heap[1])
    IN IF changedKeys = {}
       THEN [last |-> last, notes |-> <<>>, threw |-> FALSE]
       ELSE LET c == DeepClone(heap, 1)
                n == notify(subs, c.heap, 1)
                k == notifyKeySubscribers(keySubs, changedKeys, n.heap, 1)
            IN IF n.threw
               THEN [last |-> c.heap[c.ref], notes |-> n.notes, threw |-> TRUE]
               ELSE [last |-> c.heap[c.ref], notes |-> n.notes \o k.notes,
                     threw |-> k.threw]

parentListener(last, subs, keySubs, parentState) ==
    scopedListener(last, subs, keySubs, LensSelect(parentState))

\* Store Core's notification of the listener: after every write, with the
\* new state, a throw of the callback isolated.
CoreNotify(last, subs, keySubs, store) ==
    [parentListener(last, subs, keySubs, CoreGet(store)) EXCEPT !.threw = FALSE]

\* The second scoped store of the parent: the lens onto settings.
SettingsSelect(state) == state.settings

SettingsUpdate(state, settings) == Spread(state, [settings |-> settings])

\* Store Core's notification of the listener of the second scoped store, if
\* there is one: it is called after the listener of the first.
CoreNotifySibling(sib, store) ==
    IF ~sib.constructed THEN sib
    ELSE LET n == scopedListener(sib.lastScopedState, sib.subscribers,
                                 sib.keySubscribers, SettingsSelect(CoreGet(store)))
         IN [sib EXCEPT !.lastScopedState = n.last, !.notified = n.notes]

\* What the updater handed to the scoped update() computes.
ScopedUpdated(updater, scoped) ==
    IF updater = "heal" THEN Spread(scoped, [health |-> 1])
    ELSE Spread(scoped, [pos |-> X1])

\* set(newState) of the scoped store, on the wrapped parent.
scopedSetScopeOnly(mws, store, newState) ==
    set(mws, store, [player |-> newState])

scopedSetBypass(mws, store, newState) ==
    set(<<>>, store, LensUpdate(CoreGet(store), newState))

scopedSet(mws, store, newState) ==
    set(mws, store, LensUpdate(CoreGet(store), newState))

\* update(updater)
scopedUpdate(mws, store, updater) ==
    scopedSet(mws, store, ScopedUpdated(updater, LensSelect(CoreGet(store))))

\* patch(partial)
scopedPatch(mws, store, partial) ==
    scopedSet(mws, store, Spread(LensSelect(CoreGet(store)), partial))

\* reset()
scopedResetParent(mws, store, initialScoped) == reset(mws, store)

scopedReset(mws, store, initialScoped) == scopedSet(mws, store, initialScoped)

\* get()
scopedGet(store) == LensSelect(CoreGet(store))

----------------------------------------------------------------------------
(* A parent store with one scoped store, as a state machine *)

InitScoped ==
    /\ middleware = <<>>
    /\ \E s \in ConstructedOver :
         /\ baseStore = [state |-> s, initial |-> ParentInitial]
         /\ call = [op |-> "init", prev |-> s, arg |-> NoObj, threw |-> FALSE]
         /\ initialScopedState = LensSelect(s)
         /\ lastScopedState = LensSelect(s)
    /\ log = <<>>
    /\ subscribers = <<>>
    /\ keySubscribers = [key \in ScopedKeys |-> <<>>]
    /\ notified = <<>>
    /\ sibling = NoSibling
    /\ NoBus
    /\ NoModal
    /\ NoCalendar
    /\ NoScene

\* A call on the parent returned r; the store notified the listener if it
\* was written.
Wrote(op, arg, r) ==
    LET written == \E i \in DOMAIN r.log : r.log[i].kind = "write"
        n == CoreNotify(lastScopedState, subscribers, keySubscribers, r.store)
        m == CoreNotifySibling(sibling, r.store)
    IN /\ baseStore' = r.store
       /\ log' = r.log
       /\ call' = [op |-> op, prev |-> baseStore.state, arg |-> arg, threw |-> r.threw]
       /\ lastScopedState' = IF written THEN n.last ELSE lastScopedState
       /\ notified' = IF written THEN n.notes ELSE <<>>
       /\ sibling' = IF written THEN m ELSE [sibling EXCEPT !.notified = <<>>]
       /\ UNCHANGED <<middleware, initialScopedState, subscribers, keySubscribers>>
       /\ UNCHANGED apartVars

ParentSet ==
    \E s \in ParentSetInputs : Wrote("set", s, set(middleware, baseStore, s))

ParentPatch ==
    \E p \in ParentPatchInputs : Wrote("patch", p, patch(middleware, baseStore, p))

ParentReset == Wrote("reset", NoObj, reset(middleware, baseStore))

ScopedSet ==
    \E s \in ScopedSetInputs : Wrote("scoped.set", s, scopedSet(middleware, baseStore, s))

ScopedUpdate ==
    \E u \in ScopedUpdaters :
        Wrote("scoped.update", ScopedUpdated(u, LensSelect(baseStore.state)),
              scopedUpdate(middleware, baseStore, u))

ScopedPatch ==
    \E p \in ScopedPatchInputs :
        Wrote("scoped.patch", Spread(LensSelect(baseStore.state), p),
              scopedPatch(middleware, baseStore, p))

ScopedReset ==
    Wrote("scoped.reset", initialScopedState,
          scopedReset(middleware, baseStore, initialScopedState))

\* subscribe(callback): registered, then called at once with the state.
SubscribeOf(callbacks, max) ==
    \E cb \in callbacks :
        /\ cb \notin Range(subscribers)
        /\ Len(subscribers) < max
        /\ LET heap == <<scopedGet(baseStore)>>
               r == CallSubscriber(cb, heap, 1)
           IN /\ subscribers' = Append(subscribers, cb)
              /\ notified' = <<Note(cb, "state", "", heap[1])>>
              /\ call' = [op |-> "scoped.subscribe", prev |-> baseStore.state,
                          arg |-> NoObj, threw |-> r.out = "throw"]
        /\ log' = <<>>
        /\ UNCHANGED <<middleware, baseStore, initialScopedState, lastScopedState,
                       keySubscribers>>
        /\ UNCHANGED otherVars

Subscribe == SubscribeOf(Callbacks, MaxSubs)

\* The function subscribe returned.
Unsubscribe ==
    \E cb \in Range(subscribers) :
        /\ subscribers' = Without(subscribers, cb)
        /\ notified' = <<>>
        /\ log' = <<>>
        /\ call' = [op |-> "scoped.unsubscribe", prev |-> baseStore.state,
                    arg |-> NoObj, threw |-> FALSE]
        /\ UNCHANGED <<middleware, baseStore, initialScopedState, lastScopedState,
                       keySubscribers>>
        /\ UNCHANGED otherVars

KeySubscriptions ==
    Cardinality({ <<key, cb>> \in ScopedKeys \X KeyCallbacks :
                    cb \in Range(keySubscribers[key]) })

\* subscribeToKey(key, callback)
SubscribeToKey ==
    \E key \in ScopedKeys, cb \in KeyCallbacks :
        LET r == CallKeySubscriber(cb, <<>>)
        IN /\ cb \notin Range(keySubscribers[key])
           /\ KeySubscriptions < MaxKeySubs
           /\ keySubscribers' = [keySubscribers EXCEPT ![key] = Append(@, cb)]
           /\ notified' = <<Note(cb, "key", key, LensSelect(CoreGet(baseStore))[key])>>
           /\ log' = <<>>
           /\ call' = [op |-> "scoped.subscribeToKey", prev |-> baseStore.state,
                       arg |-> NoObj, threw |-> r.out = "throw"]
           /\ UNCHANGED <<middleware, baseStore, initialScopedState, lastScopedState,
                          subscribers>>
           /\ UNCHANGED otherVars

\* The function subscribeToKey returned.
UnsubscribeKey ==
    \E key \in ScopedKeys :
        \E cb \in Range(keySubscribers[key]) :
            /\ keySubscribers' = [keySubscribers EXCEPT ![key] = Without(@, cb)]
            /\ notified' = <<>>
            /\ log' = <<>>
            /\ call' = [op |-> "scoped.unsubscribeKey", prev |-> baseStore.state,
                        arg |-> NoObj, threw |-> FALSE]
            /\ UNCHANGED <<middleware, baseStore, initialScopedState, lastScopedState,
                           subscribers>>
            /\ UNCHANGED otherVars

NextScoped ==
    \/ ParentSet \/ ParentPatch \/ ParentReset
    \/ ScopedSet \/ ScopedUpdate \/ ScopedPatch \/ ScopedReset
    \/ Subscribe \/ Unsubscribe \/ SubscribeToKey \/ UnsubscribeKey

SpecScoped == InitScoped /\ [][NextScoped]_vars

----------------------------------------------------------------------------
(* Two scoped stores over one parent: player and settings *)

SettingsKeys == {"volume"}

SiblingsInitial ==
    [count |-> 0, player |-> [health |-> 0, pos |-> XY], settings |-> [volume |-> 0]]

PlayerPatchInputs == { [health |-> 0], [health |-> 1] }
SettingsPatchInputs == { [volume |-> 0], [volume |-> 1] }
SiblingsParentPatchInputs ==
    { [count |-> 1],
      [settings |-> [volume |-> 1]],
      [player |-> [health |-> 1, pos |-> XY]] }

\* set(newState) and patch(partial) of the settings store.
settingsSet(mws, store, newState) ==
    set(mws, store, SettingsUpdate(CoreGet(store), newState))

settingsPatch(mws, store, partial) ==
    settingsSet(mws, store, Spread(SettingsSelect(CoreGet(store)), partial))

InitSiblings ==
    /\ middleware = <<>>
    /\ baseStore = [state |-> SiblingsInitial, initial |-> SiblingsInitial]
    /\ call = [op |-> "init", prev |-> SiblingsInitial, arg |-> NoObj, threw |-> FALSE]
    /\ log = <<>>
    /\ initialScopedState = LensSelect(SiblingsInitial)
    /\ lastScopedState = LensSelect(SiblingsInitial)
    /\ subscribers = <<>>
    /\ keySubscribers = [key \in ScopedKeys |-> <<>>]
    /\ notified = <<>>
    /\ sibling = [constructed |-> TRUE,
                  lastScopedState |-> SettingsSelect(SiblingsInitial),
                  subscribers |-> <<>>,
                  keySubscribers |-> [key \in SettingsKeys |-> <<>>],
                  notified |-> <<>>]
    /\ NoBus
    /\ NoModal
    /\ NoCalendar
    /\ NoScene

PlayerPatch ==
    \E p \in PlayerPatchInputs :
        Wrote("scoped.patch", Spread(LensSelect(baseStore.state), p),
              scopedPatch(middleware, baseStore, p))

SettingsPatch ==
    \E p \in SettingsPatchInputs :
        Wrote("settings.patch", Spread(SettingsSelect(baseStore.state), p),
              settingsPatch(middleware, baseStore, p))

SiblingsParentPatch ==
    \E p \in SiblingsParentPatchInputs :
        Wrote("patch", p, patch(middleware, baseStore, p))

\* A call on the settings store that wrote nothing.
SettingsCalled(op, sib, threw) ==
    /\ sibling' = sib
    /\ notified' = <<>>
    /\ log' = <<>>
    /\ call' = [op |-> op, prev |-> baseStore.state, arg |-> NoObj, threw |-> threw]
    /\ UNCHANGED <<middleware, baseStore, initialScopedState, lastScopedState,
                   subscribers, keySubscribers>>
    /\ UNCHANGED apartVars

SettingsSubscribe ==
    \E cb \in Callbacks :
        /\ cb \notin Range(sibling.subscribers)
        /\ Len(sibling.subscribers) < MaxSubs
        /\ LET heap == <<SettingsSelect(CoreGet(baseStore))>>
               r == CallSubscriber(cb, heap, 1)
           IN SettingsCalled("settings.subscribe",
                  [sibling EXCEPT !.subscribers = Append(@, cb),
                                  !.notified = <<Note(cb, "state", "", heap[1])>>],
                  r.out = "throw")

SettingsUnsubscribe ==
    \E cb \in Range(sibling.subscribers) :
        SettingsCalled("settings.unsubscribe",
            [sibling EXCEPT !.subscribers = Without(@, cb), !.notified = <<>>],
            FALSE)

SettingsSubscribeToKey ==
    \E key \in SettingsKeys, cb \in KeyCallbacks :
        /\ cb \notin Range(sibling.keySubscribers[key])
        /\ Len(sibling.keySubscribers[key]) < MaxKeySubs
        /\ SettingsCalled("settings.subscribeToKey",
               [sibling EXCEPT
                   !.keySubscribers[key] = Append(@, cb),
                   !.notified = <<Note(cb, "key", key,
                                       SettingsSelect(CoreGet(baseStore))[key])>>],
               CallKeySubscriber(cb, <<>>).out = "throw")

SettingsUnsubscribeKey ==
    \E key \in SettingsKeys :
        \E cb \in Range(sibling.keySubscribers[key]) :
            SettingsCalled("settings.unsubscribeKey",
                [sibling EXCEPT !.keySubscribers[key] = Without(@, cb),
                                !.notified = <<>>],
                FALSE)

NextSiblings ==
    \/ PlayerPatch \/ SettingsPatch \/ SiblingsParentPatch
    \/ Subscribe \/ Unsubscribe
    \/ SettingsSubscribe \/ SettingsUnsubscribe
    \/ SettingsSubscribeToKey \/ SettingsUnsubscribeKey

SpecSiblings == InitSiblings /\ [][NextSiblings]_vars

----------------------------------------------------------------------------
(* A scoped store whose subscribers come and go *)

\* Subscribers enough for two to be left when one has unsubscribed.
ManyCallbacks == Callbacks \cup {"obs2"}

SubscribeMany == SubscribeOf(ManyCallbacks, MaxSubsLeft)

NextUnsubscribe ==
    \/ SubscribeMany \/ Unsubscribe
    \/ PlayerPatch \/ ScopedReset \/ ParentReset

SpecUnsubscribe == InitScoped /\ [][NextUnsubscribe]_vars

----------------------------------------------------------------------------
(* A scoped store with a subscriber that writes from inside its callback *)

\* "clamp" is handed a state: when health is 1 it calls
\* playerStore.patch({health: 0}); "obs" only looks.
ReentrantCallbacks == {"clamp", "obs"}

Clamps(cb, snapshot) == cb = "clamp" /\ snapshot.health = 1

ClampPatch == [health |-> 0]

\* The state threaded through one outermost call: the parent store, the
\* tracked lastScopedState, the callbacks invoked and the writes logged so far.
Running(store, last, notes, evs) ==
    [store |-> store, last |-> last, notes |-> notes, log |-> evs, threw |-> FALSE]

RECURSIVE ReentrantLoop(_, _, _, _, _)
RECURSIVE reentrantListener(_, _, _)

\* playerStore.patch(partial) called while c is running: the parent is set
\* and, before the call returns, has notified the listener.
reentrantPatch(c, subs, keySubs, partial) ==
    LET r == scopedPatch(<<>>, c.store, partial)
    IN reentrantListener([c EXCEPT !.store = r.store, !.log = @ \o r.log],
                         subs, keySubs)

\* notify(state): subscribers.forEach((cb) => cb(snapshot)), where cb may
\* write to the store before it returns.
ReentrantLoop(c, subs, keySubs, i, snapshot) ==
    IF i > Len(subs) THEN c
    ELSE LET cb == subs[i]
             called == [c EXCEPT !.notes = Append(@, Note(cb, "state", "", snapshot))]
         IN IF CallSubscriber(cb, <<snapshot>>, 1).out = "throw"
            THEN [called EXCEPT !.threw = TRUE]
            ELSE IF Clamps(cb, snapshot)
            THEN ReentrantLoop(
                     [reentrantPatch(called, subs, keySubs, ClampPatch)
                         EXCEPT !.threw = FALSE],
                     subs, keySubs, i + 1, snapshot)
            ELSE ReentrantLoop(called, subs, keySubs, i + 1, snapshot)

\* The parent listener, called by the parent after c.store was written.
reentrantListener(c, subs, keySubs) ==
    LET currentScoped == LensSelect(CoreGet(c.store))
        changedKeys == getChangedKeys(c.last, currentScoped)
    IN IF changedKeys = {} THEN c
       ELSE LET n == ReentrantLoop([c EXCEPT !.last = currentScoped],
                                   subs, keySubs, 1, currentScoped)
                k == notifyKeySubscribers(keySubs, changedKeys, <<currentScoped>>, 1)
            IN IF n.threw THEN n
               ELSE [n EXCEPT !.notes = @ \o k.notes, !.threw = k.threw]

\* An outermost call has returned c.
ReentrantReturned(op, arg, c) ==
    /\ baseStore' = c.store
    /\ lastScopedState' = c.last
    /\ notified' = c.notes
    /\ log' = c.log
    /\ call' = [op |-> op, prev |-> baseStore.state, arg |-> arg, threw |-> FALSE]
    /\ UNCHANGED <<middleware, initialScopedState, keySubscribers>>
    /\ UNCHANGED otherVars

ReentrantScopedPatch ==
    \E p \in ScopedPatchInputs :
        /\ ReentrantReturned("scoped.patch", Spread(LensSelect(baseStore.state), p),
               reentrantPatch(Running(baseStore, lastScopedState, <<>>, <<>>),
                              subscribers, keySubscribers, p))
        /\ UNCHANGED subscribers

ReentrantParentPatch ==
    \E p \in ParentPatchInputs :
        LET r == patch(<<>>, baseStore, p)
        IN /\ ReentrantReturned("patch", p,
                  reentrantListener(Running(r.store, lastScopedState, <<>>, r.log),
                                    subscribers, keySubscribers))
           /\ UNCHANGED subscribers

\* subscribe(callback): the immediate call may write as well.
ReentrantSubscribe ==
    \E cb \in ReentrantCallbacks :
        /\ cb \notin Range(subscribers)
        /\ Len(subscribers) < MaxSubs
        /\ LET subs == Append(subscribers, cb)
               current == scopedGet(baseStore)
               c == Running(baseStore, lastScopedState,
                            <<Note(cb, "state", "", current)>>, <<>>)
           IN /\ subscribers' = subs
              /\ ReentrantReturned("scoped.subscribe", NoObj,
                     IF Clamps(cb, current)
                     THEN reentrantPatch(c, subs, keySubscribers, ClampPatch)
                     ELSE c)

NextReentrant ==
    \/ ReentrantScopedPatch \/ ReentrantParentPatch
    \/ ReentrantSubscribe \/ Unsubscribe

SpecReentrant == InitScoped /\ [][NextReentrant]_vars

----------------------------------------------------------------------------
(* What callers hold: a scoped store over a wrapped store, by reference *)

\* In this part cell 1 of a heap is the object the store itself holds: the
\* state for the wrapped store, the player object of that state for the
\* scoped store, whose select hands out the player of whatever it is given.

AliasingPipelines ==
    { <<>>,
      <<[before |-> "none", after |-> "observe"]>>,
      <<[before |-> "scribble", after |-> "mutate"]>> }

ScribblingUpdaters == {"scribbleReturn", "scribbleThrow"}

\* baseStore.get(): a deep, independent copy of what the store holds.
CoreGetCopy(heap) == DeepClone(heap, 1)

\* get: baseStore.get
mwGet(heap) == CoreGetCopy(heap)

\* get() of the scoped store: deepClone(select(parentStore.get()))
scopedGetCopy(heap) ==
    LET parentState == mwGet(heap)
    IN DeepClone(parentState.heap, parentState.ref)

\* The updater handed to the scoped update(), on the player it is given.
CallScopedUpdater(kind, heap, stateRef) ==
    IF kind = "scribbleReturn"
    THEN [heap |-> Alloc(Mutate(heap, stateRef, "health", Scribble),
                         Spread(heap[stateRef], [health |-> 1])),
          ref |-> Len(heap) + 1, out |-> "value"]
    ELSE [heap |-> Mutate(heap, stateRef, "health", Scribble), ref |-> 0,
          out |-> "throw"]

\* update(updater) of the wrapped store, the updater called by reference:
\* when it has returned, the rest is what set does with the value returned.
updateByReference(mws, store, updater) ==
    LET prevState == mwGet(<<store.state>>)
        c == DeepClone(prevState.heap, prevState.ref)
        u == CallUpdater(updater, c.heap, c.ref)
        held == [store EXCEPT !.state = u.heap[1]]
    IN IF u.out = "throw" THEN Escaped(held, <<>>)
       ELSE set(mws, held, u.heap[u.ref])

\* update(updater) of the scoped store, the updater called by reference.
scopedUpdateByReference(mws, store, updater) ==
    LET currentScoped == mwGet(<<LensSelect(store.state)>>)
        c == DeepClone(currentScoped.heap, currentScoped.ref)
        u == CallScopedUpdater(updater, c.heap, c.ref)
        held == [store EXCEPT !.state = LensUpdate(@, u.heap[1])]
    IN IF u.out = "throw" THEN Escaped(held, <<>>)
       ELSE scopedSet(mws, held, u.heap[u.ref])

InitAliasing ==
    /\ middleware \in AliasingPipelines
    /\ \E s \in ConstructedOver :
         /\ baseStore = [state |-> s, initial |-> ParentInitial]
         /\ call = [op |-> "init", prev |-> s, arg |-> NoObj, threw |-> FALSE]
         /\ initialScopedState = LensSelect(s)
         /\ lastScopedState = LensSelect(s)
    /\ log = <<>>
    /\ subscribers = <<>>
    /\ keySubscribers = [key \in ScopedKeys |-> <<>>]
    /\ notified = <<>>
    /\ sibling = NoSibling
    /\ NoBus
    /\ NoModal
    /\ NoCalendar
    /\ NoScene

\* const s = store.get(); s.count = 99
GetMutate ==
    LET g == mwGet(<<baseStore.state>>)
        heap == Mutate(g.heap, g.ref, "count", Scribble)
    IN Wrote("get", heap[g.ref],
             [store |-> [baseStore EXCEPT !.state = heap[1]],
              log |-> <<>>, threw |-> FALSE])

\* const p = playerStore.get(); p.health = 99
ScopedGetMutate ==
    LET g == scopedGetCopy(<<LensSelect(baseStore.state)>>)
        heap == Mutate(g.heap, g.ref, "health", Scribble)
    IN Wrote("scoped.get", heap[g.ref],
             [store |-> [baseStore EXCEPT !.state = LensUpdate(@, heap[1])],
              log |-> <<>>, threw |-> FALSE])

UpdateMutate ==
    \E u \in ScribblingUpdaters :
        /\ baseStore.state.count < MaxCount
        /\ Wrote("update",
                 IF u = "scribbleThrow" THEN baseStore.state
                 ELSE Spread(baseStore.state, [count |-> baseStore.state.count + 1]),
                 updateByReference(middleware, baseStore, u))

ScopedUpdateMutate ==
    \E u \in ScribblingUpdaters :
        Wrote("scoped.update",
              IF u = "scribbleThrow" THEN LensSelect(baseStore.state)
              ELSE Spread(LensSelect(baseStore.state), [health |-> 1]),
              scopedUpdateByReference(middleware, baseStore, u))

NextAliasing ==
    \/ GetMutate \/ ScopedGetMutate \/ UpdateMutate \/ ScopedUpdateMutate
    \/ ParentPatch \/ ScopedPatch

SpecAliasing == InitAliasing /\ [][NextAliasing]_vars

----------------------------------------------------------------------------
(* A scoped store over a parent wrapped in middleware *)

\* The pipelines of the parent: hooks that transform the patch, a hook that
\* throws before others, afterPatch hooks that observe and that throw.
ScopedPipelines ==
    { <<[before |-> "addOne", after |-> "observe"],
        [before |-> "double", after |-> "observe"]>>,
      <<[before |-> "throw", after |-> "observe"],
        [before |-> "addOne", after |-> "observe"]>>,
      <<[before |-> "void", after |-> "none"],
        [before |-> "none", after |-> "throw"]>> }

InitScopedMw ==
    /\ middleware \in ScopedPipelines
    /\ \E s \in ConstructedOver :
         /\ baseStore = [state |-> s, initial |-> ParentInitial]
         /\ call = [op |-> "init", prev |-> s, arg |-> NoObj, threw |-> FALSE]
         /\ initialScopedState = LensSelect(s)
         /\ lastScopedState = LensSelect(s)
    /\ log = <<>>
    /\ subscribers = <<>>
    /\ keySubscribers = [key \in ScopedKeys |-> <<>>]
    /\ notified = <<>>
    /\ sibling = NoSibling
    /\ NoBus
    /\ NoModal
    /\ NoCalendar
    /\ NoScene

\* A write through the scoped store, offered while the count that the hooks
\* raise is below MaxCount.
ScopedMwWrite ==
    /\ baseStore.state.count < MaxCount
    /\ (ScopedSet \/ ScopedUpdate \/ ScopedPatch \/ ScopedReset)

NextScopedMw == ScopedMwWrite \/ Subscribe \/ Unsubscribe

SpecScopedMw == InitScopedMw /\ [][NextScopedMw]_vars

----------------------------------------------------------------------------
(* createEventBus *)

\* What the callbacks handed to the bus do when they are called: "plain" and
\* "other" return, "thrower" throws, "remover" unsubscribes "plain" from the
\* event it is called for, "adder" subscribes "other" to it, "emitter" emits
\* the event it is called for.
BusCallbacks == {"plain", "other", "thrower", "remover", "adder", "emitter"}
OnceCallbacks == {"plain", "thrower"}

\* A member of the set of an event: the callback itself (once = 0), or the
\* wrapper that the once-th pending once() made for it.
Listener(fn, n) == [fn |-> fn, once |-> n]

\* on(event, callback), on the listeners map l of one bus: Set.add.
onFront(l, event, callback) ==
    IF callback \in Range(l[event]) THEN l
    ELSE [l EXCEPT ![event] = <<callback>> \o @]

on(l, event, callback) ==
    IF callback \in Range(l[event]) THEN l
    ELSE [l EXCEPT ![event] = Append(@, callback)]

\* off(event, callback): Set.delete, if the event has a set.
offAll(l, event, callback) == [l EXCEPT ![event] = <<>>]

offWrapped(l, event, callback) ==
    [l EXCEPT ![event] = SelectSeq(@, LAMBDA y : y.fn # callback.fn)]

off(l, event, callback) == [l EXCEPT ![event] = Without(@, callback)]

\* The data a listener that emits from inside its call passes on.
OtherData(data) == CHOOSE d \in BusData : d # data

\* One call of a listener: start is the number of invocations the call of
\* the bus had made when the emit that makes this one started.
Invocation(callback, event, data, out, depth, start) ==
    [fn |-> callback.fn, once |-> callback.once, event |-> event, data |-> data,
     out |-> out, depth |-> depth, start |-> start]

\* What the loop of emit goes through: the snapshot taken when emit started.
IteratedLive(l, event, snapshot) == l[event]

Iterated(l, event, snapshot) == snapshot

RECURSIVE CallListener(_, _, _, _, _, _, _)
RECURSIVE EmitLoop(_, _, _, _, _, _, _, _)
RECURSIVE emit(_, _, _, _, _)

\* callback(data), where callback is a member of the set: a wrapper first
\* unsubscribes itself, then the function runs.  "emitter" emits the event
\* again while it is called, unless MaxDepth emits are already running.
CallListener(callback, l, event, data, depth, start, calls) ==
    LET l1 == IF callback.once > 0 THEN off(l, event, callback) ELSE l
        called(out) ==
            Append(calls, Invocation(callback, event, data, out, depth, start))
    IN CASE callback.fn = "thrower" ->
              [listeners |-> l1, out |-> "throw", invoked |-> called("throw")]
         [] callback.fn = "remover" ->
              [listeners |-> off(l1, event, Listener("plain", 0)), out |-> "ok",
               invoked |-> called("ok")]
         [] callback.fn = "adder" ->
              [listeners |-> on(l1, event, Listener("other", 0)), out |-> "ok",
               invoked |-> called("ok")]
         [] callback.fn = "emitter" /\ depth < MaxDepth ->
              LET r == emit(l1, event, OtherData(data), depth + 1, called("ok"))
              IN IF r.threw
                 THEN [listeners |-> r.listeners, out |-> "throw",
                       invoked |-> [r.invoked EXCEPT ![Len(calls) + 1].out = "throw"]]
                 ELSE [listeners |-> r.listeners, out |-> "ok", invoked |-> r.invoked]
         [] OTHER -> [listeners |-> l1, out |-> "ok", invoked |-> called("ok")]

\* for (const callback of snapshot) { try { callback(data) } catch ... }
EmitLoop(l, event, data, snapshot, i, calls, depth, start) ==
    IF i > Len(Iterated(l, event, snapshot))
    THEN [listeners |-> l, invoked |-> calls, threw |-> FALSE]
    ELSE LET callback == Iterated(l, event, snapshot)[i]
             r == CallListener(callback, l, event, data, depth, start, calls)
             t == TryCatch(r)
         IN IF t.out = "throw"
            THEN [listeners |-> t.listeners, invoked |-> t.invoked, threw |-> TRUE]
            ELSE EmitLoop(t.listeners, event, data, snapshot, i + 1, t.invoked,
                          depth, start)

\* emit(event, data), called by the program (depth 0, no invocation made) or
\* by a listener.
emit(l, event, data, depth, calls) ==
    EmitLoop(l, event, data, l[event], 1, calls, depth, Len(calls))

\* The wrappers pending on a bus, and the number the next one gets.
Wrappers(l) ==
    { callback \in UNION { Range(l[event]) : event \in BusEvents } : callback.once > 0 }

FreshWrapper(l) ==
    CHOOSE n \in 1..(Cardinality(Wrappers(l)) + 1) :
        \A callback \in Wrappers(l) : callback.once # n

\* once(event, callback): on(event, wrapper)
once(l, event, callback) == on(l, event, Listener(callback.fn, FreshWrapper(l)))

----------------------------------------------------------------------------
(* Two event buses as a state machine *)

InitBus ==
    /\ middleware = <<>>
    /\ baseStore = [state |-> NoObj, initial |-> NoObj]
    /\ call = [op |-> "init", prev |-> NoObj, arg |-> NoObj, threw |-> FALSE]
    /\ log = <<>>
    /\ initialScopedState = NoObj
    /\ lastScopedState = NoObj
    /\ subscribers = <<>>
    /\ keySubscribers = NoObj
    /\ notified = <<>>
    /\ sibling = NoSibling
    /\ NoBus
    /\ NoModal
    /\ NoCalendar
    /\ NoScene

\* The callbacks registered on a bus for an event in the runs explored: every
\* kind on the first event of the first bus, "plain" on its other event and
\* on the first event of the second bus.
Registrable(bus, event) ==
    IF bus = 1 /\ event = "scoreChanged" THEN BusCallbacks
    ELSE IF bus = 1 \/ event = "scoreChanged" THEN {"plain"}
    ELSE {}

OnceRegistrable(bus, event) ==
    IF bus = 1 /\ event = "scoreChanged" THEN OnceCallbacks ELSE {}

\* A call on a bus has returned, the listeners of the bus being l.
BusReturned(op, bus, event, arg, l, calls, threw) ==
    /\ listeners' = [listeners EXCEPT ![bus] = l]
    /\ invoked' = calls
    /\ busCall' = [op |-> op, bus |-> bus, event |-> event, arg |-> arg,
                   snapshot |-> listeners[bus][event], threw |-> threw]
    /\ UNCHANGED <<storeVars, modal, calendar, scene>>

On ==
    \E bus \in Buses, event \in BusEvents :
        \E fn \in Registrable(bus, event) :
            /\ Len(listeners[bus][event]) < MaxListeners
            /\ BusReturned("on", bus, event, Listener(fn, 0),
                           on(listeners[bus], event, Listener(fn, 0)), <<>>, FALSE)

\* off(event, callback), or the function on returned.
Off ==
    \E bus \in Buses, event \in BusEvents :
        \E fn \in Registrable(bus, event) :
            BusReturned("off", bus, event, Listener(fn, 0),
                        off(listeners[bus], event, Listener(fn, 0)), <<>>, FALSE)

Once ==
    \E bus \in Buses, event \in BusEvents :
        \E fn \in OnceRegistrable(bus, event) :
            /\ Len(listeners[bus][event]) < MaxListeners
            /\ Cardinality(Wrappers(listeners[bus])) < MaxOnce
            /\ BusReturned("once", bus, event,
                           Listener(fn, FreshWrapper(listeners[bus])),
                           once(listeners[bus], event, Listener(fn, 0)), <<>>, FALSE)

\* The function once returned: off(event, wrapper).
Cancel ==
    \E bus \in Buses, event \in BusEvents :
        \E wrapper \in Wrappers(listeners[bus]) \cap Range(listeners[bus][event]) :
            BusReturned("cancel", bus, event, wrapper,
                        off(listeners[bus], event, wrapper), <<>>, FALSE)

Emit ==
    \E bus \in Buses, event \in BusEvents, data \in BusData :
        LET r == emit(listeners[bus], event, data, 0, <<>>)
        IN BusReturned("emit", bus, event, data, r.listeners, r.invoked, r.threw)

NextBus == On \/ Off \/ Once \/ Cancel \/ Emit

SpecBus == InitBus /\ [][NextBus]_vars

----------------------------------------------------------------------------
(* createModalQueue *)

\* The items pushed: what onClose does when it is called is "plain" (it
\* returns), "thrower" (it throws) or "pusher" (it pushes one more item, which
\* has no onClose, on the queue); "none" is an item without onClose.  The
\* same id comes with different callbacks.
ModalItems ==
    {[id |-> "A", onClose |-> "none"], [id |-> "A", onClose |-> "pusher"],
     [id |-> "B", onClose |-> "plain"], [id |-> "B", onClose |-> "thrower"]}

\* The subscribers: "obs" and "late" return, "thrower" throws, "subscriber"
\* subscribes "late" when it is called, "unsubscriber" unsubscribes "obs",
\* "mutator" empties the array it is handed (queue.length = 0).
ModalCallbacks == {"obs", "thrower", "subscriber", "unsubscriber", "mutator"}

\* One call of a callback by the queue: kind is "close" (onClose of the item
\* who, with result arg), "notify" (subscriber who called by notify, with
\* snapshot arg) or "immediate" (subscriber who called by subscribe); depth
\* counts the calls of the queue that were running around it.
ModalNote(kind, who, arg, out, depth) ==
    [kind |-> kind, who |-> who, arg |-> arg, out |-> out, depth |-> depth]

\* try { ... } catch (error) { console.error(...) }
Caught(r) ==
    LET t == TryCatch(r)
    IN IF t.out = "throw" THEN t ELSE [t EXCEPT !.out = "ok"]

RECURSIVE CallModalSubscriber(_, _, _, _, _)
RECURSIVE modalNotifyLoop(_, _, _, _)
RECURSIVE modalNotify(_, _)
RECURSIVE modalPush(_, _, _)
RECURSIVE modalSubscribe(_, _, _)

\* callback(snapshot), m being [queue, subscribers, log, out] of the queue;
\* handed is the array the callback was given, as the callback leaves it.
CallModalSubscriber(callback, snapshot, m, kind, depth) ==
    LET out == IF callback = "thrower" THEN "throw" ELSE "ok"
        n == [m EXCEPT !.log = Append(@, ModalNote(kind, callback, snapshot, out, depth)),
                       !.out = out]
        r == CASE callback = "subscriber" -> modalSubscribe(n, "late", depth + 1)
               [] callback = "unsubscriber" ->
                    [n EXCEPT !.subscribers = Without(@, "obs")]
               [] OTHER -> n
    IN [r EXCEPT !.handed = IF callback = "mutator" THEN <<>> ELSE snapshot]

\* subscribers.forEach((callback) => { try { callback(snapshot) } catch ... }):
\* every callback is handed the same array.
\* Set.prototype.forEach goes through the live Set, so after the i-th member
\* it goes on behind those of the first i members that are still in the Set,
\* and it reaches a member added meanwhile.
modalNotifyLoop(m, snapshot, i, depth) ==
    IF i > Len(m.subscribers) THEN m
    ELSE LET t == Caught(CallModalSubscriber(m.subscribers[i], snapshot, m,
                                             "notify", depth))
             kept == {j \in 1..i : m.subscribers[j] \in Range(t.subscribers)}
         IN IF t.out = "throw" THEN t
            ELSE modalNotifyLoop(t, t.handed, Cardinality(kept) + 1, depth)

\* notify(): snapshot = [...queue]
modalNotify(m, depth) == modalNotifyLoop(m, m.queue, 1, depth)

\* safeOnClose(item, result)
safeOnClose(item, result, m, depth) ==
    IF item.onClose = "none" THEN m
    ELSE LET out == IF item.onClose = "thrower" THEN "throw" ELSE "ok"
             n == [m EXCEPT !.log = Append(@, ModalNote("close", item, result, out, depth)),
                            !.out = out]
         IN Caught(IF item.onClose = "pusher"
                   THEN modalPush(n, [id |-> "B", onClose |-> "none"], depth + 1)
                   ELSE n)

\* push(item)
modalPushUnique(m, item, depth) ==
    IF \E i \in DOMAIN m.queue : m.queue[i].id = item.id THEN modalNotify(m, depth)
    ELSE modalNotify([m EXCEPT !.queue = Append(@, item)], depth)

modalPush(m, item, depth) == modalNotify([m EXCEPT !.queue = Append(@, item)], depth)

\* pop(result): const item = queue.shift(); if (item) safeOnClose(item, result); notify()
modalPopLast(m, result, depth) ==
    IF m.queue = <<>> THEN modalNotify(m, depth)
    ELSE LET r == safeOnClose(m.queue[Len(m.queue)], result,
                              [m EXCEPT !.queue = SubSeq(@, 1, Len(@) - 1)], depth)
         IN IF r.out = "throw" THEN r ELSE modalNotify(r, depth)

modalPop(m, result, depth) ==
    IF m.queue = <<>> THEN modalNotify(m, depth)
    ELSE LET r == safeOnClose(Head(m.queue), result, [m EXCEPT !.queue = Tail(@)], depth)
         IN IF r.out = "throw" THEN r ELSE modalNotify(r, depth)

\* items.forEach((item) => safeOnClose(item, undefined))
RECURSIVE modalCloseLoop(_, _, _, _)
modalCloseFirst(items, i, m, depth) ==
    IF i > Len(items) THEN m ELSE safeOnClose(items[i], "undefined", m, depth)

modalCloseLoop(items, i, m, depth) ==
    IF i > Len(items) THEN m
    ELSE LET r == safeOnClose(items[i], "undefined", m, depth)
         IN IF r.out = "throw" THEN r ELSE modalCloseLoop(items, i + 1, r, depth)

\* clear(): const items = [...queue]; queue.length = 0; the loop; notify()
modalClear(m, depth) ==
    LET r == modalCloseLoop(m.queue, 1, [m EXCEPT !.queue = <<>>], depth)
    IN IF r.out = "throw" THEN r ELSE modalNotify(r, depth)

\* subscribe(callback): subscribers.add(callback); try { callback([...queue]) } ...
modalSubscribe(m, callback, depth) ==
    LET added == IF callback \in Range(m.subscribers) THEN m.subscribers
                 ELSE Append(m.subscribers, callback)
    IN Caught(CallModalSubscriber(callback, m.queue,
                                  [m EXCEPT !.subscribers = added], "immediate", depth))

\* The function subscribe returned: subscribers.delete(callback)
modalUnsubscribe(m, callback) == [m EXCEPT !.subscribers = Without(@, callback)]

\* getCurrent(): queue[0] ?? null
getCurrent(queue) == IF Len(queue) = 0 THEN [null |-> TRUE] ELSE queue[1]

\* getQueue(): [...queue]
getQueue(queue) == [i \in 1..Len(queue) |-> queue[i]]

\* isEmpty(): queue.length === 0
isEmpty(queue) == Len(queue) = 0

----------------------------------------------------------------------------
(* One modal queue as a state machine *)

InitModal == InitBus

\* A call of the queue begins: nothing logged, nothing thrown.
Entered ==
    [queue |-> modal.queue, subscribers |-> modal.subscribers, log |-> <<>>,
     out |-> "ok", handed |-> <<>>]

\* A call of the queue has returned, r being what it left.
ModalReturned(op, arg, r) ==
    /\ modal' = [queue |-> r.queue, subscribers |-> r.subscribers, log |-> r.log,
                 call |-> [op |-> op, arg |-> arg, prev |-> modal.queue,
                           subs |-> modal.subscribers, threw |-> r.out = "throw"]]
    /\ UNCHANGED <<storeVars, listeners, invoked, busCall, calendar, scene>>

ModalPush ==
    \E item \in ModalItems :
        /\ Len(modal.queue) < MaxQueue
        /\ ModalReturned("push", item, modalPush(Entered, item, 0))

\* pop(result) and pop(), whose result is undefined
ModalPop ==
    \E result \in {"confirm", "undefined"} :
        ModalReturned("pop", result, modalPop(Entered, result, 0))

ModalClear == ModalReturned("clear", "", modalClear(Entered, 0))

ModalSubscribe ==
    \E callback \in ModalCallbacks :
        /\ Len(modal.subscribers) < MaxModalSubs
        /\ ModalReturned("subscribe", callback, modalSubscribe(Entered, callback, 0))

ModalUnsubscribe ==
    \E callback \in ModalCallbacks \cup {"late"} :
        ModalReturned("unsubscribe", callback, modalUnsubscribe(Entered, callback))

NextModal == ModalPush \/ ModalPop \/ ModalClear \/ ModalSubscribe \/ ModalUnsubscribe

SpecModal == InitModal /\ [][NextModal]_vars

----------------------------------------------------------------------------
(* Reading the log of the last call *)

Befores == SelectSeq(log, LAMBDA e : e.kind = "before")
Afters == SelectSeq(log, LAMBDA e : e.kind = "after")
Writes == SelectSeq(log, LAMBDA e : e.kind = "write")

Max(S) == CHOOSE x \in S : \A y \in S : y <= x

\* The patch in force when the j-th beforePatch hook of the call is invoked:
\* what the nearest earlier hook that returned a value returned, the caller's
\* patch when none did.  j = Len(Befores) + 1 gives the final patch.
Carried(j) ==
    LET earlier == {i \in 1..(j - 1) : Befores[i].out = "value"}
    IN IF earlier = {} THEN call.arg ELSE Befores[Max(earlier)].res

FinalPatch == Carried(Len(Befores) + 1)

Indices == [i \in 1..Len(middleware) |-> i]
DefinedBefore == SelectSeq(Indices, LAMBDA i : middleware[i].before # "none")
DefinedAfter == SelectSeq(Indices, LAMBDA i : middleware[i].after # "none")

\* The order of a call's steps, as <<kind, index of the middleware>>.
Shape == [j \in 1..Len(log) |-> <<log[j].kind, log[j].idx>>]
BeforeShape == [j \in 1..Len(DefinedBefore) |-> <<"before", DefinedBefore[j]>>]
AfterShape == [j \in 1..Len(DefinedAfter) |-> <<"after", DefinedAfter[j]>>]

IsWrite == call.op \in {"set", "update", "patch"}

----------------------------------------------------------------------------
(* Middleware pipeline: claims *)

\* C1: the patch applied by patch(partial) is the left-to-right fold of the
\* beforePatch hooks: every hook receives what the nearest earlier hook that
\* returned a value returned (the caller's patch if none did), a hook that
\* returns nothing leaves the patch as it is, and the stored state is the old
\* state merged with the output of the last hook; {count: 5} through "add one"
\* then "double" stores 12, through "double" then "add one" stores 11.
C1_PatchIsFoldOfBeforeHooks ==
    call.op = "patch" =>
        /\ \A j \in 1..Len(Befores) : Befores[j].patch = Carried(j)
        /\ Len(Writes) = 1
        /\ Writes[1].patch = FinalPatch
        /\ baseStore.state = Spread(call.prev, FinalPatch)
        /\ (call.arg = [count |-> 5] /\ Len(middleware) = 2) =>
             /\ (middleware[1].before = "addOne" /\ middleware[2].before = "double")
                   => baseStore.state.count = 12
             /\ (middleware[1].before = "double" /\ middleware[2].before = "addOne")
                   => baseStore.state.count = 11

C1_Witness ==
    /\ call.op = "patch"
    /\ call.arg = [count |-> 5]
    /\ Len(Befores) = 2
    /\ Befores[1].out = "value"
    /\ Befores[2].out = "value"
    /\ Befores[2].patch = [count |-> 6]
    /\ baseStore.state.count = 12

\* C2: in one patch call every defined beforePatch hook runs exactly once in
\* pipeline order, then the store is written, then every defined afterPatch
\* hook runs exactly once in pipeline order.
C2_HookOrder ==
    call.op = "patch" =>
        Shape = BeforeShape \o <<(<<"write", 0>>)>> \o AfterShape

C2_Witness ==
    /\ call.op = "patch"
    /\ Len(Befores) = 2
    /\ Len(Afters) = 2
    /\ Shape = << <<"before", 1>>, <<"before", 2>>, <<"write", 0>>,
                  <<"after", 1>>, <<"after", 2>> >>

\* C3: every afterPatch hook of a write receives the state stored before the
\* write, the state stored after it and the final patch of the beforePatch
\* hooks; and the newState reported for one write is the prevState reported
\* for the next.
C3_Arguments ==
    IsWrite =>
        \A j \in 1..Len(Afters) :
            /\ Afters[j].prev = call.prev
            /\ Afters[j].next = baseStore.state
            /\ Afters[j].patch = FinalPatch

C3_Chain ==
    (log' # log \/ call' # call) =>
        \A i \in 1..Len(Afters) : \A j \in 1..Len(Afters') :
            Afters'[j].prev = Afters[i].next

C3_AfterPatchArguments == []C3_Arguments /\ [][C3_Chain]_vars

C3_Witness ==
    /\ call.op = "patch"
    /\ call.prev # baseStore.initial
    /\ call.prev # baseStore.state
    /\ Len(Befores) > 0
    /\ Befores[1].out = "value"
    /\ Len(Afters) = 2

\* C4: a beforePatch hook that throws does not make the write throw and adds
\* nothing to the patch; the later beforePatch hooks still run, with the patch
\* as of the last hook that completed, and the write is applied with the
\* resulting patch.
C4_BeforePatchThrowIsolated ==
    (IsWrite /\ \E j \in 1..Len(Befores) : Befores[j].out = "throw") =>
        /\ ~call.threw
        /\ Len(Befores) = Len(DefinedBefore)
        /\ \A j \in 1..Len(Befores) :
              Befores[j].out = "throw" => Carried(j + 1) = Befores[j].patch
        /\ \A j \in 2..Len(Befores) :
              Befores[j - 1].out = "throw" => Befores[j].patch = Befores[j - 1].patch
        /\ Len(Writes) = 1
        /\ Writes[1].patch = FinalPatch
        /\ call.op = "patch" => baseStore.state = Spread(call.prev, FinalPatch)

C4_Witness ==
    /\ call.op = "patch"
    /\ call.arg = [count |-> 5]
    /\ Len(Befores) = 2
    /\ middleware[1].before = "scribbleThrow"
    /\ Befores[1].out = "throw"
    /\ Befores[2].out = "value"
    /\ baseStore.state.count = 10

\* C5: an afterPatch hook that throws does not make the write throw; every
\* later afterPatch hook still runs exactly once, and the stored state is the
\* state the write produced.
C5_AfterPatchThrowIsolated ==
    (call.op # "init" /\ \E j \in 1..Len(Afters) : Afters[j].out = "throw") =>
        /\ ~call.threw
        /\ [j \in 1..Len(Afters) |-> <<"after", Afters[j].idx>>] = AfterShape
        /\ Len(Writes) = 1
        /\ baseStore.state = Writes[1].next
        /\ call.op = "patch" => baseStore.state = Spread(call.prev, FinalPatch)
        /\ call.op = "reset" => baseStore.state = baseStore.initial

C5_Witness ==
    /\ call.op = "patch"
    /\ Len(Afters) = 2
    /\ Afters[1].out = "throw"
    /\ Afters[2].out = "ok"
    /\ baseStore.state # call.prev

\* C6: what an afterPatch hook does to the prevState, newState and patch
\* objects it is handed changes neither the stored state nor what the later
\* afterPatch hooks of the same write receive.
C6_AfterPatchMutationIsolated ==
    \A i \in 1..Len(Afters) :
        middleware[Afters[i].idx].after = "mutate" =>
            /\ Len(Writes) = 1
            /\ baseStore.state = Writes[1].next
            /\ CoreGet(baseStore) = Writes[1].next
            /\ \A j \in (i + 1)..Len(Afters) :
                  /\ Afters[j].prev = call.prev
                  /\ Afters[j].next = Writes[1].next
                  /\ Afters[j].patch = Writes[1].patch

C6_Witness ==
    /\ call.op = "patch"
    /\ Len(Afters) = 2
    /\ middleware[Afters[1].idx].after = "mutate"
    /\ baseStore.state.count # Scribble
    /\ Afters[2].next.count # Scribble

\* C7: reset() invokes no beforePatch hook, restores the initial state, and
\* then invokes every afterPatch hook once, in pipeline order, with the state
\* before the reset as prevState and the restored state as newState and patch.
C7_Reset ==
    call.op = "reset" =>
        /\ ~call.threw
        /\ baseStore.state = baseStore.initial
        /\ Shape = <<(<<"write", 0>>)>> \o AfterShape
        /\ \A j \in 1..Len(Afters) :
              /\ Afters[j].prev = call.prev
              /\ Afters[j].next = baseStore.initial
              /\ Afters[j].patch = baseStore.initial

C7_Witness ==
    /\ call.op = "reset"
    /\ call.prev # baseStore.initial
    /\ Len(DefinedBefore) > 0
    /\ Len(Afters) = 2

\* C8: set and update apply the final patch with the patch (shallow merge)
\* semantics of the store: the keys absent from what a beforePatch hook
\* returned keep the values they had before the write.
C8_SetAppliesFinalPatchAsPatch ==
    call.op \in {"set", "update"} =>
        /\ Len(Writes) = 1
        /\ \A k \in DOMAIN call.prev \ DOMAIN FinalPatch :
              /\ k \in DOMAIN baseStore.state
              /\ baseStore.state[k] = call.prev[k]
        /\ baseStore.state = Spread(call.prev, FinalPatch)

----------------------------------------------------------------------------
(* Scoped store: claims *)

\* Structural (deep) equality of two scoped states: the same keys with the
\* same values, whatever the order in which a nested object lists its keys.
StructEqual(a, b) ==
    /\ DOMAIN a = DOMAIN b
    /\ \A key \in DOMAIN a :
          IF key \in ObjKeys THEN Range(a[key]) = Range(b[key]) ELSE a[key] = b[key]

ParentWrite == call.op \in {"set", "patch", "reset"}

ScopedWrite == call.op \in {"scoped.set", "scoped.update", "scoped.patch"}

\* C9: a write to the parent that leaves the scoped projection structurally
\* unchanged invokes no whole-state subscriber and no per-key subscriber of
\* the scoped store.
C9_UnchangedProjectionNotifiesNobody ==
    (ParentWrite /\ StructEqual(LensSelect(call.prev), LensSelect(baseStore.state)))
        => notified = <<>>

\* C10: after a scoped set, update or patch the projection of the parent is
\* the new scoped value the write computed, the scoped get() returns it, and
\* the parent is unchanged outside the scoped slice.
C10_ScopedWriteReachesParent ==
    ScopedWrite =>
        /\ StructEqual(LensSelect(CoreGet(baseStore)), call.arg)
        /\ StructEqual(scopedGet(baseStore), call.arg)
        /\ DOMAIN baseStore.state = DOMAIN call.prev
        /\ \A key \in DOMAIN call.prev \ {"player"} :
              baseStore.state[key] = call.prev[key]

C10_Witness ==
    /\ call.op = "scoped.patch"
    /\ call.prev.count = 1
    /\ call.prev.player.health = 0
    /\ baseStore.state.player.health = 1
    /\ baseStore.state.count = 1
    /\ subscribers # <<>>
    /\ notified # <<>>

\* C11: reset() of the scoped store sets the slice to the projection that held
\* when the scoped store was constructed, not to the projection of the
\* parent's initial state, and leaves every parent field outside the slice
\* at the value it had just before the reset, whatever writes came before.
C11_State ==
    /\ call.op = "init" => initialScopedState = LensSelect(baseStore.state)
    /\ call.op = "scoped.reset" =>
          /\ LensSelect(CoreGet(baseStore)) = initialScopedState
          /\ DOMAIN baseStore.state = DOMAIN call.prev
          /\ \A key \in DOMAIN call.prev \ {"player"} :
                baseStore.state[key] = call.prev[key]

C11_Kept == initialScopedState' = initialScopedState

C11_ScopedResetRestoresSlice == []C11_State /\ [][C11_Kept]_vars

C11_Witness ==
    /\ call.op = "scoped.reset"
    /\ initialScopedState # LensSelect(baseStore.initial)
    /\ LensSelect(call.prev) # initialScopedState
    /\ call.prev.count # baseStore.initial.count
    /\ baseStore.state.count = call.prev.count

\* A call that wrote the parent, so that the parent notified its listeners.
Notification == ParentWrite \/ ScopedWrite \/ call.op = "scoped.reset"

\* The keys in which the projection after the call differs from the tracked
\* value, which before the call was the projection before it.
ChangedKeys == getChangedKeys(LensSelect(call.prev), LensSelect(baseStore.state))

\* The calls the last operation made to a whole-state callback, and to a
\* callback subscribed to a key.
StateCalls(cb) ==
    SelectSeq(notified, LAMBDA n : n.kind = "state" /\ n.cb = cb)

KeyCallsOf(key, cb) ==
    SelectSeq(notified, LAMBDA n : n.kind = "key" /\ n.key = key /\ n.cb = cb)

\* C12: on a parent notification where the projection differs from the
\* tracked value in a non-empty set K of top-level keys, every whole-state
\* subscriber is invoked exactly once with the new projection, every per-key
\* subscriber of a key in K exactly once with the new value of the key, and
\* no per-key subscriber of a key outside K.
C12_ChangedKeysNotified ==
    (Notification /\ ChangedKeys # {}) =>
        /\ \A cb \in Range(subscribers) :
              StateCalls(cb) = <<Note(cb, "state", "", LensSelect(baseStore.state))>>
        /\ \A key \in ChangedKeys : \A cb \in Range(keySubscribers[key]) :
              KeyCallsOf(key, cb)
                  = <<Note(cb, "key", key, LensSelect(baseStore.state)[key])>>
        /\ \A i \in DOMAIN notified :
              notified[i].kind = "key" => notified[i].key \in ChangedKeys

\* C13: a scoped write notifies the scoped subscribers only through the
\* notification of the parent: a scoped write after which the parent listener
\* finds nothing changed invokes nobody; what a subscriber is handed is the
\* projection of the state the parent was written with before; and a scoped
\* write that changes the scoped value invokes every whole-state subscriber
\* exactly once.
C13_NotifiedThroughParent ==
    ScopedWrite =>
        /\ Len(Writes) = 1
        /\ Writes[1].out = "set"
        /\ ChangedKeys = {} => notified = <<>>
        /\ \A i \in DOMAIN notified :
              notified[i].kind = "state"
                  => notified[i].value = LensSelect(Writes[1].next)
        /\ ~StructEqual(LensSelect(call.prev), LensSelect(baseStore.state)) =>
              \A cb \in Range(subscribers) : Len(StateCalls(cb)) = 1

\* What the last call invoked of the settings store's callbacks.
SettingsInvoked(cb) == \E i \in DOMAIN sibling.notified : sibling.notified[i].cb = cb

SettingsChanged ==
    ~StructEqual(SettingsSelect(call.prev), SettingsSelect(baseStore.state))

\* C14: with a player store and a settings store over the same parent, a
\* write through the player store invokes no whole-state and no per-key
\* subscriber of the settings store, and on every write a subscriber of the
\* settings store is invoked exactly when the settings projection changed.
C14_SiblingsIsolated ==
    /\ call.op = "scoped.patch" => sibling.notified = <<>>
    /\ call.op \in {"scoped.patch", "settings.patch", "patch"} =>
          /\ \A cb \in Range(sibling.subscribers) :
                SettingsInvoked(cb) <=> SettingsChanged
          /\ \A key \in SettingsKeys : \A cb \in Range(sibling.keySubscribers[key]) :
                SettingsInvoked(cb) <=> SettingsChanged

ProjectionChanged ==
    ~StructEqual(LensSelect(call.prev), LensSelect(baseStore.state))

\* C15: subscribe(cb) invokes cb exactly once with the current scoped state,
\* whatever writes came before; the function it returns removes cb and
\* nothing else, no write invokes a callback that is not subscribed, and the
\* write that changes the scoped value after an unsubscription invokes every
\* subscriber that is left.
C15_State ==
    /\ call.op = "scoped.subscribe" =>
          /\ subscribers # <<>>
          /\ notified = <<Note(subscribers[Len(subscribers)], "state", "",
                               LensSelect(CoreGet(baseStore)))>>
    /\ Notification =>
          \A i \in DOMAIN notified :
              notified[i].kind = "state" => notified[i].cb \in Range(subscribers)

C15_Step ==
    /\ call'.op = "scoped.unsubscribe" =>
          \E cb \in Range(subscribers) :
              /\ subscribers' = Without(subscribers, cb)
              /\ cb \notin Range(subscribers')
    /\ (call.op = "scoped.unsubscribe" /\ Notification' /\ ProjectionChanged') =>
          \A cb \in Range(subscribers') : Len(StateCalls(cb)') = 1

C15_SubscribeAndUnsubscribe == []C15_State /\ [][C15_Step]_vars

\* The callbacks that throw when they are called.
Throwing == {"thrower", "kthrow"}

\* C16: when a subscriber of the scoped store throws while it is notified of
\* a change, every other whole-state subscriber and every per-key subscriber
\* of a changed key is still invoked for that change, and the write that
\* triggered the notification does not throw.
C16_SubscriberThrowIsolated ==
    (Notification /\ \E i \in DOMAIN notified : notified[i].cb \in Throwing) =>
        /\ ~call.threw
        /\ \A cb \in Range(subscribers) : Len(StateCalls(cb)) = 1
        /\ \A key \in ChangedKeys : \A cb \in Range(keySubscribers[key]) :
              Len(KeyCallsOf(key, cb)) = 1

\* Whether the elements of a occur in b in the same order.
RECURSIVE IsSubsequence(_, _)
IsSubsequence(a, b) ==
    IF a = <<>> THEN TRUE
    ELSE IF b = <<>> THEN FALSE
    ELSE IF a[1] = b[1] THEN IsSubsequence(Tail(a), Tail(b))
    ELSE IsSubsequence(a, Tail(b))

\* The scoped states the writes of the last call stored, in order, and the
\* states the call delivered to a subscriber, in order.
WrittenScoped == [i \in 1..Len(Writes) |-> LensSelect(Writes[i].next)]

DeliveredTo(cb) == [i \in 1..Len(StateCalls(cb)) |-> StateCalls(cb)[i].value]

\* C17: a subscriber receives the states in the order in which the writes
\* were applied, and when the outermost write has returned the last state
\* delivered to every subscriber it notified is the current state of the
\* store, also when a subscriber writes to the store from inside its callback.
C17_DeliveredInWriteOrder ==
    call.op \in {"scoped.patch", "patch"} =>
        \A cb \in Range(subscribers) :
            DeliveredTo(cb) # <<>> =>
                /\ IsSubsequence(DeliveredTo(cb), WrittenScoped)
                /\ DeliveredTo(cb)[Len(DeliveredTo(cb))] = LensSelect(CoreGet(baseStore))

\* C18: for the scoped store and for the wrapped store, assigning to the
\* object get() returned changes nothing of what the store holds, and an
\* updater that assigns to its argument and does not return it leaves no
\* trace of the assignment: the store holds what the updater returned, or
\* what it held before when the updater threw.
C18_CallersHoldCopies ==
    /\ call.op \in {"get", "scoped.get"} =>
          /\ CoreGet(baseStore) = call.prev
          /\ scopedGet(baseStore) = LensSelect(call.prev)
    /\ call.op = "update" =>
          CoreGet(baseStore) = call.arg
    /\ call.op = "scoped.update" =>
          /\ scopedGet(baseStore) = call.arg
          /\ CoreGet(baseStore) = LensUpdate(call.prev, call.arg)

C18_Witness ==
    /\ call.op = "scoped.get"
    /\ call.arg.health = Scribble
    /\ Len(middleware) > 0
    /\ baseStore.state.count = 2
    /\ baseStore.state.player.health = 1

\* C37: between the calls, when no notification of the parent is running,
\* the lastScopedState the scoped store tracks is structurally equal to
\* select(parent.get()), after any sequence of parent writes, scoped writes
\* and resets, whatever the subscribers of the scoped store do.
C37_LastScopedTracksParent ==
    StructEqual(lastScopedState, LensSelect(CoreGet(baseStore)))

C37_Witness ==
    /\ call.op = "scoped.set"
    /\ call.threw = FALSE
    /\ "thrower" \in Range(subscribers)
    /\ ~StructEqual(lastScopedState, LensSelect(call.prev))
    /\ lastScopedState # initialScopedState
    /\ StructEqual(lastScopedState, LensSelect(CoreGet(baseStore)))

\* The parent state a scoped write asks for, and what the beforePatch hooks
\* of the parent make of it.
ScopedAsked == LensUpdate(call.prev, call.arg)

ScopedFinal ==
    LET given == {i \in 1..Len(Befores) : Befores[i].out = "value"}
    IN IF given = {} THEN ScopedAsked ELSE Befores[Max(given)].res

----------------------------------------------------------------------------
(* Event bus: claims *)

\* The invocations the last call made itself, not those of an emit issued by
\* one of its listeners, and their callbacks in order.
Direct == SelectSeq(invoked, LAMBDA c : c.depth = 0)

InvokedListeners == [i \in 1..Len(Direct) |-> Listener(Direct[i].fn, Direct[i].once)]

\* C19: emit(event, data) invokes exactly the callbacks registered for the
\* event on the bus when it is called, each once, in registration order and
\* each with data; the callbacks of other events and of other buses are not
\* invoked, and nothing of theirs changes.
C19_State ==
    busCall.op = "emit" =>
        /\ InvokedListeners = busCall.snapshot
        /\ \A i \in DOMAIN Direct : Direct[i].data = busCall.arg
        /\ \A i \in DOMAIN invoked : invoked[i].event = busCall.event

C19_Step ==
    busCall' # busCall =>
        /\ busCall'.snapshot = listeners[busCall'.bus][busCall'.event]
        /\ \A bus \in Buses : \A event \in BusEvents :
              (bus # busCall'.bus \/ event # busCall'.event)
                  => listeners'[bus][event] = listeners[bus][event]
        /\ busCall'.op = "on" =>
              \/ listeners'[busCall'.bus][busCall'.event]
                    = Append(busCall'.snapshot, busCall'.arg)
              \/ /\ busCall'.arg \in Range(busCall'.snapshot)
                 /\ listeners'[busCall'.bus][busCall'.event] = busCall'.snapshot

C19_EmitInvokesRegistered == []C19_State /\ [][C19_Step]_vars

C19_Witness ==
    /\ busCall.op = "emit"
    /\ busCall.bus = 1
    /\ busCall.event = "scoreChanged"
    /\ busCall.arg = 2
    /\ Len(invoked) = 2
    /\ Len(Direct) = 2
    /\ invoked[1].fn = "other"
    /\ invoked[2].fn = "plain"
    /\ listeners[2]["scoreChanged"] # <<>>
    /\ listeners[1]["playerDied"] # <<>>

\* How often the last call invoked a member of the set of its event.
TimesInvoked(callback) ==
    Cardinality({ i \in DOMAIN InvokedListeners : InvokedListeners[i] = callback })

Registered == listeners[busCall.bus][busCall.event]

\* C20: what an emit invokes is fixed when it starts: a callback registered
\* then is invoked exactly once, also when an earlier callback of the same
\* emit has unsubscribed it, and a callback registered during the emit is not
\* invoked by it; the registrations as the callbacks left them are what the
\* next emit invokes.
C20_State ==
    busCall.op = "emit" =>
        /\ \A callback \in Range(busCall.snapshot) : TimesInvoked(callback) = 1
        /\ \A callback \in Range(Registered) \ Range(busCall.snapshot) :
              TimesInvoked(callback) = 0
        /\ (\E i \in DOMAIN invoked : invoked[i].fn = "remover")
              => Listener("plain", 0) \notin Range(Registered)
        /\ (\E i \in DOMAIN invoked : invoked[i].fn = "adder")
              => Listener("other", 0) \in Range(Registered)

C20_Step ==
    (busCall'.op = "emit" /\ busCall' # busCall) =>
        InvokedListeners' = listeners[busCall'.bus][busCall'.event]

C20_EmitOverSnapshot == []C20_State /\ [][C20_Step]_vars

C20_Witness ==
    /\ busCall.op = "emit"
    /\ busCall.snapshot = <<Listener("remover", 0), Listener("plain", 0)>>
    /\ InvokedListeners = busCall.snapshot
    /\ Registered = <<Listener("remover", 0)>>

\* The last call invoked, itself or through a listener that emitted, a
\* listener that changes the registrations.
Rearranged ==
    \E i \in DOMAIN invoked :
        invoked[i].fn \in {"remover", "adder"} \/ invoked[i].once > 0

\* C21: when a callback throws during an emit, the emit does not throw, the
\* emit still invokes every callback registered for the event once and in
\* registration order, and the failure changes no registration: the callback
\* that threw stays registered, and where no invoked callback unsubscribes or
\* subscribes anything the registrations are what they were.
C21_ThrowIsolated ==
    (busCall.op = "emit" /\ \E i \in DOMAIN invoked : invoked[i].out = "throw") =>
        /\ ~busCall.threw
        /\ InvokedListeners = busCall.snapshot
        /\ \A callback \in Range(busCall.snapshot) : TimesInvoked(callback) = 1
        /\ Listener("thrower", 0) \in Range(busCall.snapshot)
              => Listener("thrower", 0) \in Range(Registered)
        /\ ~Rearranged => Registered = busCall.snapshot

C21_Witness ==
    /\ busCall.op = "emit"
    /\ busCall.snapshot = <<Listener("thrower", 0), Listener("plain", 0)>>
    /\ Len(invoked) = 2
    /\ invoked[1].out = "throw"
    /\ invoked[2].fn = "plain"
    /\ invoked[2].out = "ok"
    /\ Registered = busCall.snapshot

\* The invocations by the last call of the wrapper that once() numbered n.
OnceCalls(n) == SelectSeq(invoked, LAMBDA c : c.once = n)

\* C22: a callback registered with once is invoked at most once over any
\* sequence of emits of its event, with the data of the first emit that
\* reaches it, also when a listener of the event emits it again from inside
\* an emit and when the callback throws: an emit and the emits issued inside
\* it invoke a wrapper at most once, and an invoked wrapper is registered no
\* more when the emit returns, so that no later emit invokes it.
C22_OnceAtMostOnce ==
    busCall.op = "emit" =>
        \A n \in 1..MaxOnce :
            /\ Len(OnceCalls(n)) <= 1
            /\ \A i \in DOMAIN invoked :
                  invoked[i].once = n
                      => Listener(invoked[i].fn, n) \notin Range(Registered)

\* C23: unsubscribing is effective and precise.  off(event, callback), the
\* function on returned and the function once returned (also before the
\* event was ever emitted) take exactly that callback out of the set of that
\* event, leave every other callback of the event and every other event and
\* bus as they were, and return normally, also when the callback or the
\* event has no registration; an emit issued afterwards does not invoke the
\* callback: what an emit invokes was registered when the call started or
\* was subscribed during it, and once a listener has unsubscribed "plain" no
\* emit that starts later invokes it.
C23_State ==
    busCall.op = "emit" =>
        \A i \in DOMAIN invoked : \A j \in DOMAIN invoked :
            (/\ i < j
             /\ invoked[i].fn = "remover"
             /\ invoked[j].fn = "plain"
             /\ invoked[j].once = 0) => invoked[j].start < i

C23_Step ==
    busCall' # busCall =>
        /\ busCall'.op \in {"off", "cancel"} =>
              /\ listeners'[busCall'.bus][busCall'.event]
                    = Without(listeners[busCall'.bus][busCall'.event], busCall'.arg)
              /\ \A bus \in Buses : \A event \in BusEvents :
                    (bus # busCall'.bus \/ event # busCall'.event)
                        => listeners'[bus][event] = listeners[bus][event]
              /\ ~busCall'.threw
              /\ invoked' = <<>>
        /\ busCall'.op = "emit" =>
              \A i \in DOMAIN invoked' :
                  \/ Listener(invoked'[i].fn, invoked'[i].once)
                        \in Range(listeners[busCall'.bus][busCall'.event])
                  \/ /\ invoked'[i].fn = "other"
                     /\ \E k \in 1..(i - 1) : invoked'[k].fn = "adder"

C23_UnsubscribeEffective == []C23_State /\ [][C23_Step]_vars

\* "plain", unsubscribed by the first listener of an emit, is not invoked by
\* the emit the second listener issues, and is invoked by the emit that had
\* started before.
C23_Witness ==
    /\ busCall.op = "emit"
    /\ busCall.snapshot
          = <<Listener("remover", 0), Listener("emitter", 0), Listener("plain", 0)>>
    /\ Len(invoked) = 5
    /\ invoked[5].fn = "plain"
    /\ invoked[5].depth = 0
    /\ Registered = <<Listener("remover", 0), Listener("emitter", 0)>>

\* The wrappers registered for the event of the last call when it was made.
PendingOnce == { callback \in Range(busCall.snapshot) : callback.once > 0 }

\* C40: off(event, cb), called with the callback that was handed to once,
\* does not cancel the pending once(event, cb): the wrapper stays registered
\* and the next emit of the event invokes it; the function once returned
\* does cancel it; and the emit that invokes a wrapper leaves it registered
\* no more.
C40_State ==
    /\ busCall.op = "off" => PendingOnce \subseteq Range(Registered)
    /\ busCall.op = "cancel" => busCall.arg \notin Range(Registered)
    /\ busCall.op = "emit" =>
          \A callback \in PendingOnce :
              /\ TimesInvoked(callback) = 1
              /\ callback \notin Range(Registered)

C40_Step ==
    (busCall'.op = "emit" /\ busCall' # busCall) =>
        busCall'.snapshot = listeners[busCall'.bus][busCall'.event]

C40_OffKeepsOnce == []C40_State /\ [][C40_Step]_vars

C40_Witness ==
    /\ busCall.op = "off"
    /\ busCall.arg = Listener("plain", 0)
    /\ busCall.snapshot = <<Listener("plain", 1)>>
    /\ Registered = <<Listener("plain", 1)>>

----------------------------------------------------------------------------
(* Modal queue: claims *)

\* The onClose calls and the subscriber calls of the last call of the queue;
\* those at depth 0 are made by the call itself, the others by a push or a
\* subscribe that a callback issued.
Closes == SelectSeq(modal.log, LAMBDA e : e.kind = "close")
Notifies == SelectSeq(modal.log, LAMBDA e : e.kind = "notify" /\ e.depth = 0)
Immediates == SelectSeq(modal.log, LAMBDA e : e.kind = "immediate" /\ e.depth = 0)

\* What closing item pushes on the queue.
PushedBy(item) ==
    IF item.onClose = "pusher" THEN <<[id |-> "B", onClose |-> "none"]>> ELSE <<>>

\* C24: the queue is a strict FIFO.  push(item) puts the item at the end
\* whatever is queued already, an item with the same id included, so that
\* the length grows by exactly one; pop() takes the oldest item away and
\* keeps the others in push order, an item the closed item's onClose pushes
\* going to the end; getQueue() lists the queue in that order and
\* getCurrent() is its first item, null when it is empty.
C24_Fifo ==
    /\ modal.call.op = "push" =>
          /\ getQueue(modal.queue) = Append(modal.call.prev, modal.call.arg)
          /\ Len(getQueue(modal.queue)) = Len(modal.call.prev) + 1
    /\ (modal.call.op = "pop" /\ modal.call.prev # <<>>) =>
          getQueue(modal.queue)
              = Tail(modal.call.prev) \o PushedBy(Head(modal.call.prev))
    /\ modal.call.op \in {"push", "pop"} =>
          getCurrent(modal.queue)
              = IF getQueue(modal.queue) = <<>> THEN [null |-> TRUE]
                ELSE getQueue(modal.queue)[1]

C24_Witness ==
    /\ modal.call.op = "pop"
    /\ modal.call.prev = <<[id |-> "A", onClose |-> "none"],
                           [id |-> "A", onClose |-> "none"]>>
    /\ getCurrent(modal.queue) = [id |-> "A", onClose |-> "none"]
    /\ Len(getQueue(modal.queue)) = 1

\* C25: pop(result) removes exactly the head item and calls that item's
\* onClose, if it has one, exactly once with exactly result (undefined when
\* pop() is called without); it calls the onClose of no other item; on an
\* empty queue it calls no onClose, leaves the queue empty and returns
\* normally.
C25_PopClosesHead ==
    modal.call.op = "pop" =>
        /\ ~modal.call.threw
        /\ modal.call.prev = <<>> => (Closes = <<>> /\ modal.queue = <<>>)
        /\ modal.call.prev # <<>> =>
              /\ modal.queue = Tail(modal.call.prev) \o PushedBy(Head(modal.call.prev))
              /\ Head(modal.call.prev).onClose = "none" => Closes = <<>>
              /\ Head(modal.call.prev).onClose # "none" =>
                    /\ Len(Closes) = 1
                    /\ Closes[1].who = Head(modal.call.prev)
                    /\ Closes[1].arg = modal.call.arg

C25_Witness ==
    /\ modal.call.op = "pop"
    /\ modal.call.arg = "confirm"
    /\ modal.call.prev = <<[id |-> "B", onClose |-> "plain"],
                           [id |-> "A", onClose |-> "pusher"]>>
    /\ Len(Closes) = 1
    /\ Closes[1].arg = "confirm"
    /\ modal.queue = <<[id |-> "A", onClose |-> "pusher"]>>

\* The subscribers that were subscribed when the last call was made and
\* still are.
Subscribed ==
    { callback \in Range(modal.call.subs) : callback \in Range(modal.subscribers) }

\* C26: when the onClose of the popped item throws, pop returns normally,
\* the item is removed all the same, so that the next item is current, and
\* the subscribers are notified; pop notifies them also when the popped item
\* has no onClose.
C26_PopOnCloseThrowIsolated ==
    (/\ modal.call.op = "pop"
     /\ modal.call.prev # <<>>
     /\ Head(modal.call.prev).onClose \in {"thrower", "none"}) =>
        /\ ~modal.call.threw
        /\ modal.queue = Tail(modal.call.prev)
        /\ Len(modal.call.prev) > 1 => getCurrent(modal.queue) = modal.call.prev[2]
        /\ \A callback \in Subscribed :
              \E i \in DOMAIN Notifies : Notifies[i].who = callback

C26_Witness ==
    /\ modal.call.op = "pop"
    /\ modal.call.prev = <<[id |-> "B", onClose |-> "thrower"],
                           [id |-> "A", onClose |-> "none"]>>
    /\ modal.call.subs = <<"obs">>
    /\ Len(Closes) = 1
    /\ Closes[1].out = "throw"
    /\ Len(Notifies) = 1
    /\ getCurrent(modal.queue) = [id |-> "A", onClose |-> "none"]

\* C27: clear() calls the onClose of every item that was queued when it was
\* called, each exactly once with undefined and in queue order; an onClose
\* that throws does not stop the callbacks of the items behind it, and clear
\* returns normally.
C27_ClearClosesAll ==
    modal.call.op = "clear" =>
        LET closable == SelectSeq(modal.call.prev, LAMBDA item : item.onClose # "none")
        IN /\ ~modal.call.threw
           /\ Len(Closes) = Len(closable)
           /\ \A i \in DOMAIN Closes :
                 /\ Closes[i].who = closable[i]
                 /\ Closes[i].arg = "undefined"

C27_Witness ==
    /\ modal.call.op = "clear"
    /\ modal.call.prev = <<[id |-> "B", onClose |-> "thrower"],
                           [id |-> "B", onClose |-> "plain"]>>
    /\ Len(Closes) = 2
    /\ Closes[1].out = "throw"
    /\ Closes[2].out = "ok"

\* C28: when clear() returns the queue is empty: isEmpty() is true,
\* getCurrent() is null and getQueue() is empty, whatever the onClose
\* callbacks of the removed items did, throwing and pushing on the same
\* queue included.
C28_ClearLeavesEmpty ==
    modal.call.op = "clear" =>
        /\ isEmpty(modal.queue)
        /\ getCurrent(modal.queue) = [null |-> TRUE]
        /\ getQueue(modal.queue) = <<>>

\* How often the last call itself notified callback.
TimesNotified(callback) ==
    Cardinality({ i \in DOMAIN Notifies : Notifies[i].who = callback })

\* C29: subscribe(callback) calls the callback exactly once, at once and
\* with the queue as it is; each push, pop and clear then calls every
\* subscribed callback exactly once, with a snapshot equal to the queue after
\* the operation; a subscriber that throws keeps no other subscriber from
\* being notified, nor the call from returning; an unsubscribed callback is
\* not called again: a call notifies only callbacks that were subscribed
\* when it was made or were subscribed while it ran.
C29_SubscribersNotified ==
    /\ ~modal.call.threw
    /\ modal.call.op = "subscribe" =>
          /\ Len(Immediates) = 1
          /\ Immediates[1].who = modal.call.arg
          /\ Immediates[1].arg = modal.queue
          /\ modal.queue = modal.call.prev
          /\ Notifies = <<>>
    /\ modal.call.op = "unsubscribe" =>
          /\ modal.call.arg \notin Range(modal.subscribers)
          /\ modal.log = <<>>
    /\ modal.call.op \in {"push", "pop", "clear"} =>
          /\ \A callback \in Subscribed : TimesNotified(callback) = 1
          /\ \A i \in DOMAIN Notifies :
                /\ Notifies[i].arg = modal.queue
                /\ \/ Notifies[i].who \in Range(modal.call.subs)
                   \/ Notifies[i].who \in Range(modal.subscribers) \ Range(modal.call.subs)

\* C30: a notification pass runs over the subscribers as they were when it
\* started: a callback that a subscriber subscribes during the pass gets its
\* call from subscribe and no call from the pass in progress, and a
\* subscriber that unsubscribes a callback during the pass makes nothing fail.
C30_PassOverSnapshot ==
    modal.call.op \in {"push", "pop", "clear"} =>
        /\ ~modal.call.threw
        /\ \A i \in DOMAIN Notifies : Notifies[i].who \in Range(modal.call.subs)

\* C39: within one notification pass, what one subscriber does to the array
\* it is handed is not visible to the subscribers called after it, and does
\* not change the queue: every subscriber of the pass observes the queue as
\* stored.
C39_SubscribersSeeStored ==
    modal.call.op \in {"push", "pop", "clear"} =>
        /\ \A i \in DOMAIN Notifies : Notifies[i].arg = getQueue(modal.queue)
        /\ modal.call.op = "push" =>
              modal.queue = Append(modal.call.prev, modal.call.arg)

----------------------------------------------------------------------------
(* createCalendarService *)

\* The configurations and the days explored: daysPerSeason from -1 and the
\* number of seasons from 0, so that construction fails for some; days from
\* before day 1 to past the second year of the longest calendar.
CalendarConfigs ==
    [daysPerSeason : -1..MaxDaysPerSeason,
     seasons : {[i \in 1..n |-> i] : n \in 0..MaxSeasons}]

CalendarDays == (0 - MaxBack)..MaxDay

\* const daysPerYear = daysPerSeason * seasons.length
daysPerYear(config) == config.daysPerSeason * Len(config.seasons)

\* The day as asked, without the clamp.
normalizeDayRaw(day) == day

\* normalizeDay(day): Math.max(1, day)
normalizeDay(day) == IF day > 1 THEN day ELSE 1

\* getSeasonIndex(day): Math.floor(((normalizedDay - 1) % daysPerYear) / daysPerSeason)
getSeasonIndex(config, day) ==
    LET dayIndex == normalizeDay(day) - 1
        dayInYear == dayIndex % daysPerYear(config)
    IN  dayInYear \div config.daysPerSeason

\* getDayInSeason(day): ((normalizedDay - 1) % daysPerSeason) + 1
getDayInSeason(config, day) ==
    LET dayIndex == normalizeDay(day) - 1
    IN  (dayIndex % config.daysPerSeason) + 1

\* getYear(day): Math.floor((normalizedDay - 1) / daysPerYear) + 1
getYear(config, day) == ((normalizeDay(day) - 1) \div daysPerYear(config)) + 1

\* createCalendarService(config): throws for no seasons and for a
\* daysPerSeason that is not positive, otherwise returns the service.
createCalendarService(config) ==
    IF Len(config.seasons) = 0 THEN "threw"
    ELSE IF config.daysPerSeason <= 0 THEN "threw"
    ELSE "yes"

InitCalendar == InitBus

CreateCalendar ==
    \E config \in CalendarConfigs :
        /\ calendar' = [config |-> config, made |-> createCalendarService(config),
                        asked |-> FALSE, day |-> 0, seasonIndex |-> 0, dayInSeason |-> 0, year |-> 0]
        /\ UNCHANGED <<storeVars, listeners, invoked, busCall, modal, scene>>

\* The service, once constructed, is asked about a day.
AskCalendar ==
    \E day \in CalendarDays :
        /\ calendar.made = "yes"
        /\ calendar' = [calendar EXCEPT
                           !.asked = TRUE,
                           !.day = day,
                           !.seasonIndex = getSeasonIndex(calendar.config, day),
                           !.dayInSeason = getDayInSeason(calendar.config, day),
                           !.year = getYear(calendar.config, day)]
        /\ UNCHANGED <<storeVars, listeners, invoked, busCall, modal, scene>>

NextCalendar == CreateCalendar \/ AskCalendar

SpecCalendar == InitCalendar /\ [][NextCalendar]_vars

\* C32: a calendar is constructed exactly when it has at least one season and
\* a positive daysPerSeason. For a constructed calendar of n seasons and the
\* day d = max(1, day) it was last asked about, the season index is in
\* 0..n-1, the day in the season is in 1..daysPerSeason, the year is at least
\* 1, and (year - 1) * n * daysPerSeason + seasonIndex * daysPerSeason +
\* dayInSeason = d.
C32_CalendarDecomposition ==
    LET n == Len(calendar.config.seasons)
        per == calendar.config.daysPerSeason
        d == IF calendar.day > 1 THEN calendar.day ELSE 1
    IN  /\ calendar.made = "threw" <=> (calendar.made # "no" /\ (n = 0 \/ per <= 0))
        /\ calendar.made = "yes" => n >= 1 /\ per >= 1
        /\ calendar.asked =>
               /\ calendar.seasonIndex \in 0..(n - 1)
               /\ calendar.dayInSeason \in 1..per
               /\ calendar.year >= 1
               /\ (calendar.year - 1) * n * per + calendar.seasonIndex * per
                      + calendar.dayInSeason = d

\* A calendar of two seasons of three days asked about a day of its third
\* year.
C32_Witness ==
    /\ calendar.asked
    /\ Len(calendar.config.seasons) = 2
    /\ calendar.config.daysPerSeason = 3
    /\ calendar.day = 14
    /\ calendar.year = 3 /\ calendar.seasonIndex = 0 /\ calendar.dayInSeason = 2

----------------------------------------------------------------------------
(* createSceneStore *)

\* The ids navigated to: the registered ones and one that is not.
SceneTargets == DOMAIN Scenes \cup {"credits"}

\* The second argument of goto and push: none, a SceneTransition (the legacy
\* form), NavigationOptions with data.
NavOptions == {Undefined, [type |-> "fade"], [data |-> [score |-> "high"]]}

defaultTransition == [type |-> "none"]

\* isSceneTransition(obj): 'type' in obj
isSceneTransition(obj) == "type" \in DOMAIN obj

\* obj[k], undefined for a property obj does not have
Property(obj, k) == IF k \in DOMAIN obj THEN obj[k] ELSE Undefined

\* The transition and the data goto and push read from their options.
ParseOptions(options) ==
    IF options = Undefined THEN [transition |-> Undefined, data |-> Undefined]
    ELSE IF isSceneTransition(options)
         THEN [transition |-> options, data |-> Undefined]
         ELSE [transition |-> Property(options, "transition"),
               data |-> Property(options, "data")]

\* setState(partial): state = { ...state, ...partial }, then notify(): every
\* subscriber is handed a copy of the state.
setState(sc, partial) ==
    LET state == [k \in DOMAIN sc.state |->
                     IF k \in DOMAIN partial THEN partial[k] ELSE sc.state[k]]
    IN  [sc EXCEPT !.state = state,
                   !.seen = IF sc.subscribers = {} THEN @ ELSE state]

\* transitionTo from "Complete transition" on: the call resolves.
AfterEnter(sc) ==
    [setState(sc, [isTransitioning |-> FALSE, transition |-> JsNull])
        EXCEPT !.out = "resolved"]

\* transitionTo from "Update scene data" on, c being the call: it is
\* suspended in the onEnter hook of the target when there is one.
AfterExit(sc, c) ==
    LET s1 == [sc EXCEPT !.currentSceneData =
                            IF c.data = Undefined THEN JsNull ELSE c.data]
        s2 == setState(s1, [currentScene |-> c.targetId,
                            previousScene |-> s1.state.currentScene])
    IN  IF Scenes[c.targetId].onEnter
        THEN [s2 EXCEPT !.pending = Append(@, [c EXCEPT !.at = "onEnter"]),
                        !.out = "pending"]
        ELSE AfterEnter(s2)

\* transitionTo(targetId, transition, data) up to its first await.
transitionTo(sc, op, options, targetId, transition, data) ==
    LET c == [op |-> op, options |-> options, targetId |-> targetId,
              transition |-> IF transition = Undefined THEN defaultTransition
                             ELSE transition,
              data |-> data, at |-> "onExit"]
    IN  IF targetId \notin DOMAIN Scenes THEN [sc EXCEPT !.out = "rejected"]
        ELSE IF sc.state.currentScene = targetId THEN [sc EXCEPT !.out = "resolved"]
        ELSE LET s1 == setState(sc, [isTransitioning |-> TRUE,
                                     transition |-> c.transition])
             IN  IF Scenes[sc.state.currentScene].onExit
                 THEN [s1 EXCEPT !.pending = Append(@, c), !.out = "pending"]
                 ELSE AfterExit(s1, c)

\* goto(sceneId, options)
goto(sc, sceneId, options) ==
    LET parsed == ParseOptions(options)
    IN  transitionTo([sc EXCEPT !.sceneStack = <<>>], "goto", options, sceneId,
                     parsed.transition, parsed.data)

\* push(sceneId, options)
push(sc, sceneId, options) ==
    LET parsed == ParseOptions(options)
    IN  transitionTo([sc EXCEPT !.sceneStack = Append(@, sc.state.currentScene)],
                     "push", options, sceneId, parsed.transition, parsed.data)

\* pop(transition); the calls explored pass no transition
pop(sc, transition) ==
    IF Len(sc.sceneStack) = 0 THEN [sc EXCEPT !.out = "resolved"]
    ELSE transitionTo([sc EXCEPT !.sceneStack = SubSeq(@, 1, Len(@) - 1)],
                      "pop", transition, sc.sceneStack[Len(sc.sceneStack)],
                      transition, Undefined)

\* The promise of the hook the i-th suspended call awaits settles: the call
\* goes on after its await, or rejects with the hook.
hookSettled(sc, i, outcome) ==
    LET c == sc.pending[i]
        rest == [sc EXCEPT !.pending =
                    SubSeq(@, 1, i - 1) \o SubSeq(@, i + 1, Len(@))]
    IN  IF outcome = "reject" THEN [rest EXCEPT !.out = "rejected"]
        ELSE IF c.at = "onExit" THEN AfterExit(rest, c)
        ELSE AfterEnter(rest)

getSceneData(sc) == sc.currentSceneData
getStackDepth(sc) == Len(sc.sceneStack)
canGoBack(sc) == Len(sc.sceneStack) > 0

InitScene == InitBus

\* A step of the store begins.
SceneEntered ==
    [state |-> scene.state, sceneStack |-> scene.sceneStack,
     currentSceneData |-> scene.currentSceneData, subscribers |-> scene.subscribers,
     seen |-> scene.seen, pending |-> scene.pending, out |-> "returned"]

\* A step of the store is over, r being what it left: step is "call" for the
\* part of a call up to its first await and "hook" for a part after an
\* await; op, id and options are those of the call.
SceneReturned(step, op, id, options, r) ==
    /\ scene' = [state |-> r.state, sceneStack |-> r.sceneStack,
                 currentSceneData |-> r.currentSceneData,
                 subscribers |-> r.subscribers, seen |-> r.seen,
                 pending |-> r.pending,
                 last |-> [step |-> step, op |-> op, id |-> id,
                           options |-> options, out |-> r.out]]
    /\ UNCHANGED <<storeVars, listeners, invoked, busCall, modal, calendar>>

SceneGoto ==
    \E id \in SceneTargets, options \in NavOptions :
        /\ Len(scene.pending) < MaxPending
        /\ SceneReturned("call", "goto", id, options, goto(SceneEntered, id, options))

ScenePush ==
    \E id \in SceneTargets, options \in NavOptions :
        /\ Len(scene.pending) < MaxPending
        /\ Len(scene.sceneStack) < MaxStack
        /\ SceneReturned("call", "push", id, options, push(SceneEntered, id, options))

ScenePop ==
    \E transition \in {Undefined} :
        /\ Len(scene.pending) < MaxPending
        /\ SceneReturned("call", "pop", "", transition, pop(SceneEntered, transition))

HookSettles ==
    \E i \in DOMAIN scene.pending, outcome \in {"resolve", "reject"} :
        SceneReturned("hook", scene.pending[i].op, scene.pending[i].targetId,
                      scene.pending[i].options,
                      hookSettled(SceneEntered, i, outcome))

\* subscribe(callback): added, and called at once with a copy of the state.
SceneSubscribe ==
    /\ scene.subscribers = {}
    /\ SceneReturned("call", "subscribe", "", Undefined,
                     [SceneEntered EXCEPT !.subscribers = {"obs"},
                                          !.seen = scene.state])

\* The function subscribe returned is called.
SceneUnsubscribe ==
    /\ scene.subscribers # {}
    /\ SceneReturned("call", "unsubscribe", "", Undefined,
                     [SceneEntered EXCEPT !.subscribers = {}])

NextScene ==
    \/ SceneGoto \/ ScenePush \/ ScenePop \/ HookSettles
    \/ SceneSubscribe \/ SceneUnsubscribe

SpecScene == InitScene /\ [][NextScene]_vars

----------------------------------------------------------------------------
(* Scene store: claims *)

\* The data a goto or push carried in its options, null when it carried none.
CarriedData(options) ==
    IF options # Undefined /\ ~isSceneTransition(options) /\ "data" \in DOMAIN options
    THEN options.data
    ELSE JsNull

\* C31: when a goto or push to a registered id has resolved, getSceneData()
\* is the data given in its options, and null when it carried none, whatever
\* the scene the store was on.
C31_SceneDataAsGiven ==
    (/\ scene.last.out = "resolved"
     /\ scene.last.op \in {"goto", "push"}
     /\ scene.last.id \in DOMAIN Scenes)
        => getSceneData(scene) = CarriedData(scene.last.options)

\* C33: a goto or push to an id that is not registered rejects and leaves
\* currentScene, previousScene, isTransitioning, the scene data and the
\* stack (getStackDepth, canGoBack) as they were.
C33_UnregisteredLeavesAll ==
    [][(/\ scene'.last.step = "call"
        /\ scene'.last.op \in {"goto", "push"}
        /\ scene'.last.id \notin DOMAIN Scenes)
           => /\ scene'.last.out = "rejected"
              /\ scene'.state.currentScene = scene.state.currentScene
              /\ scene'.state.previousScene = scene.state.previousScene
              /\ scene'.state.isTransitioning = scene.state.isTransitioning
              /\ getSceneData(scene') = getSceneData(scene)
              /\ getStackDepth(scene') = getStackDepth(scene)
              /\ canGoBack(scene') = canGoBack(scene)]_vars

\* C34: isTransitioning is true whenever some navigation call has begun a
\* transition and not completed it, overlapping calls included.
C34_TransitioningWhilePending ==
    scene.pending # <<>> => scene.state.isTransitioning

\* C35: when every navigation call has settled, resolved or rejected,
\* isTransitioning is false and transition is null.
C35_SettledNotTransitioning ==
    scene.pending = <<>> =>
        ~scene.state.isTransitioning /\ scene.state.transition = JsNull

\* C36: previousScene is null or a registered id other than currentScene,
\* and currentScene and every stack entry are registered ids.
C36_SceneIdsWellFormed ==
    /\ \/ scene.state.previousScene = NoSceneId
       \/ /\ scene.state.previousScene \in DOMAIN Scenes
          /\ scene.state.previousScene # scene.state.currentScene
    /\ scene.state.currentScene \in DOMAIN Scenes
    /\ \A i \in DOMAIN scene.sceneStack : scene.sceneStack[i] \in DOMAIN Scenes

====
